---- MODULE Spec2Model ----
(***************************************************************************)
(* fftool.py: molecule construction (mol.__init__, fromzmat, frommdlmol,   *)
(* fromxyz, connectivity, anglesdiheds), the term matcher (mol.setff) and  *)
(* the system type aggregator (system.__init__).                           *)
(*                                                                         *)
(* Units: lengths are integers in 1/1000 Angstrom, angles in 1/10 degree,  *)
(* charges, masses and force-field parameters in 1/1000 of their unit.     *)
(* dist2atoms returns a square root; the model carries the squared         *)
(* distance and bond_checkval compares squares, which is exact.            *)
(***************************************************************************)
EXTENDS Integers, Sequences, FiniteSets, TLC

VARIABLES
    pc,        \* position of the run: see the actions below
    connect,   \* main: connect = args.lammps or args.dlpoly
    box,       \* main: the simulation cell handed to every mol()
    fmt,       \* extension of the input file: "zmat", "mol" or "xyz"
    m,         \* the molecule under construction (mol object)
    out,       \* what has been printed so far, in order
    miss,      \* setff: the lists anmiss, dhmiss, dimiss
    spec,      \* main: list of the species constructed so far
    sys,       \* the system object (type tables), once built
    written,   \* main: the files written so far, in order
    pair,      \* vdw.__init__: the arguments iat, jat, mix of the call
    nb,        \* vdw.__init__: the vdw object under construction
    zm,        \* the zmat object: records, connect, improper, ff, reconnect
    zlines     \* zmat.__init__: the lines of the file not yet read

vars ==
    <<pc, connect, box, fmt, m, out, miss, spec, sys, written, pair, nb, zm,
      zlines>>

(***************************************************************************)
(* Bounds of the model.                                                    *)
(***************************************************************************)
MaxAtoms == 3      \* atoms of one molecule in the single-molecule runs
MaxSpec == 2       \* species handed to system() in the system runs
MaxChain == 4      \* atoms of the bond lists handed to anglesdiheds alone
MaxLines == 4      \* lines of the last section of a z-matrix file
MaxRecs == 4       \* records of the z-matrices handed to zmat2cart alone

(***************************************************************************)
(* Program constants.                                                      *)
(***************************************************************************)
BondTol == 250     \* bond.checkval: delta < 0.25 Angstrom
AngleTol == 150    \* angle.checkval: delta < 15.0 degrees


(***************************************************************************)
(* Generic helpers.                                                        *)
(***************************************************************************)
\* Body applied to the value of v
Let(v, Body(_)) == CHOOSE r \in {Body(x) : x \in {v}} : TRUE

RECURSIVE Concat(_, _, _)
Concat(F(_), lo, hi) ==
    IF lo > hi THEN <<>> ELSE F(lo) \o Concat(F, lo + 1, hi)

\* the list <<F(1), ..., F(n)>>
Map(F(_), n) == Concat(LAMBDA k : <<F(k)>>, 1, n)

\* the state after Step(st, lo), Step(., lo + 1), ..., Step(., hi): the body
\* of a for loop applied to the loop's variables, one iteration at a time
RECURSIVE Fold(_, _, _, _)
Fold(Step(_, _), st, lo, hi) ==
    IF lo > hi THEN st
    ELSE CHOOSE r \in {Fold(Step, s, lo + 1, hi) : s \in {Step(st, lo)}} : TRUE

Range(s) == {s[k] : k \in DOMAIN s}

Abs(v) == IF v < 0 THEN -v ELSE v

\* Python 2 round(num / den) for den > 0: half away from zero
PyRound(num, den) ==
    IF num >= 0 THEN (2 * num + den) \div (2 * den)
    ELSE -((2 * (-num) + den) \div (2 * den))

(***************************************************************************)
(* atomic_weight(name): the element prefix of the atom names used here.    *)
(***************************************************************************)
atomic_weight(name) ==
    CASE name \in {"C", "C2"} -> 12011
      [] name = "H" -> 1008
      [] OTHER -> 0

(***************************************************************************)
(* class atom                                                              *)
(***************************************************************************)
atom(name, mass) ==
    [name |-> name,
     m |-> IF mass = 0 THEN atomic_weight(name) ELSE mass,
     ityp |-> -1, x |-> 0, y |-> 0, z |-> 0,
     hastype |-> FALSE, type |-> "", q |-> 0, pot |-> "", par |-> <<>>]

atom_setpar(at, attp, q, pot, par) ==
    [at EXCEPT !.hastype = TRUE, !.type = attp, !.q = q, !.pot = pot,
               !.par = par]

(***************************************************************************)
(* class cell                                                              *)
(***************************************************************************)
cell(a, b, c, pbc) ==
    [iscell |-> TRUE, a |-> a, b |-> b, c |-> c, pbc |-> pbc]

\* box = None, the default of connectivity(), setff() and dist2atoms()
None == [iscell |-> FALSE, a |-> 0, b |-> 0, c |-> 0, pbc |-> {}]

(***************************************************************************)
(* dist2atoms: the SQUARE of the distance it returns.                      *)
(***************************************************************************)
MinImage(d, len, on) == IF on THEN d - PyRound(d, len) * len ELSE d

\* the components of atj - ati after the minimum-image correction
delta(ati, atj, bx) ==
    <<MinImage(atj.x - ati.x, bx.a, bx.iscell /\ "x" \in bx.pbc),
      MinImage(atj.y - ati.y, bx.b, bx.iscell /\ "y" \in bx.pbc),
      MinImage(atj.z - ati.z, bx.c, bx.iscell /\ "z" \in bx.pbc)>>

vector_mul(v, w) == v[1] * w[1] + v[2] * w[2] + v[3] * w[3]

dist2atoms(ati, atj, bx) ==
    Let(delta(ati, atj, bx), LAMBDA d : vector_mul(d, d))

(***************************************************************************)
(* angle3atoms, in 1/10 degree, for the geometries of the model (atoms on  *)
(* the corners of a square, so that every angle is a multiple of 45        *)
(* degrees).  err is TRUE when the call raises: a zero-length vector       *)
(* divides by zero, and for parallel vectors the computed cosine may round *)
(* above 1, which math.acos rejects; fpup says whether it does.            *)
(***************************************************************************)
RECURSIVE Gcd(_, _)
Gcd(a, b) == IF b = 0 THEN a ELSE Gcd(b, a % b)

\* v divided by the common factor of its components: the angle does not
\* depend on the lengths, and the products stay small
Reduced(v) ==
    Let(Gcd(Gcd(Abs(v[1]), Abs(v[2])), Abs(v[3])),
        LAMBDA g : IF g = 0 THEN v
                   ELSE <<v[1] \div g, v[2] \div g, v[3] \div g>>)

\* acos(dot / sqrt(nn)) in 1/10 degree, dot the scalar product and nn the
\* product of the squared lengths
acosdeg(dot, nn, fpup) ==
    IF nn = 0 THEN [err |-> TRUE, th |-> 0]
    ELSE IF dot * dot = nn
         THEN [err |-> fpup, th |-> IF dot > 0 THEN 0 ELSE 1800]
    ELSE IF dot = 0 THEN [err |-> FALSE, th |-> 900]
    ELSE IF 2 * dot * dot = nn
         THEN [err |-> FALSE, th |-> IF dot > 0 THEN 450 ELSE 1350]
    ELSE IF 4 * dot * dot = nn
         THEN [err |-> FALSE, th |-> IF dot > 0 THEN 600 ELSE 1200]
    ELSE IF 4 * dot * dot = 3 * nn
         THEN [err |-> FALSE, th |-> IF dot > 0 THEN 300 ELSE 1500]
    ELSE [err |-> TRUE, th |-> -1]   \* outside the modelled geometries

angle3atoms(ati, atj, atk, bx, fpup) ==
    Let(<<Reduced(delta(atj, ati, bx)), Reduced(delta(atj, atk, bx))>>,
        LAMBDA v :
          Let(<<vector_mul(v[1], v[2]),
                vector_mul(v[1], v[1]) * vector_mul(v[2], v[2])>>,
              LAMBDA p : acosdeg(p[1], p[2], fpup)))

(***************************************************************************)
(* class bond                                                              *)
(***************************************************************************)
bond(i, j) ==
    [i |-> i, j |-> j, r |-> 0, ityp |-> -1,
     hasname |-> FALSE, name |-> "", iatp |-> "", jatp |-> "",
     pot |-> "", par |-> <<>>, haseq |-> FALSE, eqval |-> 0]

\* bond_setpar recording the equilibrium value as well
bond_setparEq(bd, iatp, jatp, pot, par) ==
    [bd EXCEPT !.hasname = TRUE, !.name = iatp \o "-" \o jatp,
               !.iatp = iatp, !.jatp = jatp, !.pot = pot, !.par = par,
               !.haseq = TRUE]

bond_setpar(bd, iatp, jatp, pot, par) ==
    [bd EXCEPT !.hasname = TRUE, !.name = iatp \o "-" \o jatp,
               !.iatp = iatp, !.jatp = jatp, !.pot = pot, !.par = par]

\* seteqval: [err, t]; err is sys.exit(1)
bond_seteqval(bd) ==
    IF ~bd.hasname THEN [err |-> TRUE, t |-> bd]
    ELSE IF bd.pot \in {"harm", "cons"}
         THEN [err |-> FALSE,
               t |-> [bd EXCEPT !.haseq = TRUE, !.eqval = bd.par[1]]]
    ELSE [err |-> TRUE, t |-> bd]

\* checkval(r) with r2 the square of r: abs(r - eqval) < 0.25
\* bond_checkval with the test delta <= 0.25
bond_checkvalClosed(bd, r2) ==
    /\ (bd.eqval - BondTol <= 0
          \/ r2 >= (bd.eqval - BondTol) * (bd.eqval - BondTol))
    /\ bd.eqval + BondTol >= 0
    /\ r2 <= (bd.eqval + BondTol) * (bd.eqval + BondTol)

bond_checkval(bd, r2) ==
    /\ (bd.eqval - BondTol < 0
          \/ r2 > (bd.eqval - BondTol) * (bd.eqval - BondTol))
    /\ bd.eqval + BondTol > 0
    /\ r2 < (bd.eqval + BondTol) * (bd.eqval + BondTol)

(***************************************************************************)
(* class angle                                                             *)
(***************************************************************************)
angle(i, j, k) ==
    [i |-> i, j |-> j, k |-> k, theta |-> 0, ityp |-> -1,
     hasname |-> FALSE, name |-> "", iatp |-> "", jatp |-> "", katp |-> "",
     pot |-> "", par |-> <<>>, haseq |-> FALSE, eqval |-> 0]

angle_setpar(an, iatp, jatp, katp, pot, par) ==
    [an EXCEPT !.hasname = TRUE,
               !.name = iatp \o "-" \o jatp \o "-" \o katp,
               !.iatp = iatp, !.jatp = jatp, !.katp = katp,
               !.pot = pot, !.par = par]

angle_seteqval(an) ==
    IF ~an.hasname THEN [err |-> TRUE, t |-> an]
    ELSE IF an.pot \in {"harm", "cons"}
         THEN [err |-> FALSE,
               t |-> [an EXCEPT !.haseq = TRUE, !.eqval = an.par[1]]]
    ELSE [err |-> TRUE, t |-> an]

\* checkval(th): abs(th - eqval) < 15.0
angle_checkval(an, th) == Abs(th - an.eqval) < AngleTol

(***************************************************************************)
(* class dihed, class dimpr(dihed)                                         *)
(***************************************************************************)
dihed(i, j, k, l) ==
    [i |-> i, j |-> j, k |-> k, l |-> l, phi |-> 0, ityp |-> -1,
     hasname |-> FALSE, name |-> "",
     iatp |-> "", jatp |-> "", katp |-> "", latp |-> "",
     pot |-> "", par |-> <<>>]

dihed_setpar(dh, iatp, jatp, katp, latp, pot, par) ==
    [dh EXCEPT !.hasname = TRUE,
               !.name = iatp \o "-" \o jatp \o "-" \o katp \o "-" \o latp,
               !.iatp = iatp, !.jatp = jatp, !.katp = katp, !.latp = latp,
               !.pot = pot, !.par = par]

(***************************************************************************)
(* The force-field files on disk, as their records in file order:          *)
(*   atoms      <<name, type, mass, charge, pot, par>>                     *)
(*   bonds      <<iatp, jatp, pot, par>>                                   *)
(*   angles     <<iatp, jatp, katp, pot, par>>                             *)
(*   dihedrals, improper  <<iatp, jatp, katp, latp, pot, par>>             *)
(* a.ff has one record per type.  b.ff repeats the atom C, the bond        *)
(* CT-HC (second time reversed), the angle CT-CT-CT, the dihedral          *)
(* CT-CT-CT-CT and the improper CT-CT-CT-HC.  c.ff knows the atom C only  *)
(* and two bonds CT-CT.  d.ff knows the atom H only, with a Buckingham     *)
(* potential.                                                              *)
(***************************************************************************)
FFFiles ==
    [a |->
       [atoms |-> << <<"C", "CT", 12011, -180, "lj", <<66, 3500>> >>,
                     <<"H", "HC", 1008, 60, "lj", <<30, 2500>> >>,
                     <<"C2", "CT", 12011, -120, "lj", <<66, 3500>> >> >>,
        bonds |-> << <<"CT", "CT", "harm", <<1529, 2242>> >>,
                     <<"CT", "HC", "harm", <<1090, 2845>> >> >>,
        angles |-> << <<"CT", "CT", "CT", "harm", <<1000, 488>> >>,
                      <<"HC", "CT", "HC", "harm", <<1078, 276>> >> >>,
        dihedrals |-> << <<"CT", "CT", "CT", "CT", "opls", <<5439, -209>> >> >>,
        improper |-> << <<"CT", "CT", "CT", "HC", "opls", <<0, 9200>> >> >>],
     b |->
       [atoms |-> << <<"C", "CX", 12000, 0, "lj", <<1, 1>> >>,
                     <<"H", "HC", 1008, 60, "lj", <<30, 2500>> >>,
                     <<"C", "CT", 12011, -180, "lj", <<70, 3550>> >> >>,
        bonds |-> << <<"CT", "HC", "harm", <<1500, 3000>> >>,
                     <<"HC", "CT", "harm", <<1090, 2845>> >>,
                     <<"CT", "CT", "harm", <<1529, 2242>> >> >>,
        angles |-> << <<"CT", "CT", "CT", "harm", <<1200, 500>> >>,
                      <<"CT", "CT", "CT", "harm", <<1000, 488>> >>,
                      <<"CT", "CT", "HC", "harm", <<900, 313>> >> >>,
        dihedrals |-> << <<"CT", "CT", "CT", "CT", "opls", <<5439, -209>> >>,
                         <<"CT", "CT", "CT", "CT", "opls", <<7280, -657>> >>,
                         <<"HC", "CT", "CT", "CT", "opls", <<0, 1255>> >> >>,
        improper |-> << <<"CT", "CT", "CT", "HC", "opls", <<0, 9200>> >>,
                        <<"HC", "CT", "CT", "CT", "opls", <<0, 4600>> >> >>],
     c |->
       [atoms |-> << <<"C", "CT", 12011, 0, "lj", <<50, 3000>> >> >>,
        bonds |-> << <<"CT", "CT", "harm", <<1350, 2242>> >>,
                     <<"CT", "CT", "harm", <<1500, 2242>> >> >>,
        angles |-> <<>>,
        dihedrals |-> <<>>,
        improper |-> <<>>],
     d |->
       [atoms |-> << <<"H", "HB", 1008, 60, "buck", <<100, 3000, 20>> >> >>,
        bonds |-> <<>>,
        angles |-> <<>>,
        dihedrals |-> <<>>,
        improper |-> <<>>]]

\* the force fields named by the input files of the single-molecule runs
FFNames == {"a", "b", "c"}

(***************************************************************************)
(* class forcefield: forcefield(filename) parses the file into atom and    *)
(* bonded-term objects and sets the equilibrium value of every bond and    *)
(* angle record; err is the sys.exit(1) of seteqval.                       *)
(***************************************************************************)
ffAtomRec(t) == atom_setpar(atom(t[1], t[3]), t[2], t[4], t[5], t[6])

ffBondRec(t) == bond_setpar(bond(-1, -1), t[1], t[2], t[3], t[4])

ffAngleRec(t) == angle_setpar(angle(-1, -1, -1), t[1], t[2], t[3], t[4], t[5])

ffDihedRec(t) ==
    dihed_setpar(dihed(-1, -1, -1, -1), t[1], t[2], t[3], t[4], t[5], t[6])

ffParse(f) ==
    Let(<<Map(LAMBDA k : bond_seteqval(ffBondRec(f.bonds[k])), Len(f.bonds)),
          Map(LAMBDA k : angle_seteqval(ffAngleRec(f.angles[k])),
              Len(f.angles))>>,
        LAMBDA eq :
          [atom |-> Map(LAMBDA k : ffAtomRec(f.atoms[k]), Len(f.atoms)),
           bond |-> Map(LAMBDA k : eq[1][k].t, Len(eq[1])),
           angle |-> Map(LAMBDA k : eq[2][k].t, Len(eq[2])),
           dihed |-> Map(LAMBDA k : ffDihedRec(f.dihedrals[k]),
                         Len(f.dihedrals)),
           dimpr |-> Map(LAMBDA k : ffDihedRec(f.improper[k]),
                         Len(f.improper)),
           err |-> \/ \E k \in DOMAIN eq[1] : eq[1][k].err
                   \/ \E k \in DOMAIN eq[2] : eq[2][k].err])

\* the force-field objects of the files on disk
FFObjects == [a |-> ffParse(FFFiles.a), b |-> ffParse(FFFiles.b),
              c |-> ffParse(FFFiles.c), d |-> ffParse(FFFiles.d)]

forcefield(filename) == FFObjects[filename]

(***************************************************************************)
(* Geometries of the input files: atom k sits on corner k of a square      *)
(* (in one of two corner orders) of side Scale.                            *)
(***************************************************************************)
Ring == << <<0, 0, 0>>, <<1, 0, 0>>, <<1, 1, 0>>, <<0, 1, 0>> >>

Cross == << <<0, 0, 0>>, <<1, 1, 0>>, <<1, 0, 0>>, <<0, 1, 0>> >>

Shapes == {Ring, Cross}

Scales == {1100, 1500, 1800}

BoxSet == {cell(9000, 9000, 9000, {}), cell(3600, 9000, 9000, {"x"})}

AtomNames == {"C", "H"}

place(at, shape, scale, k) ==
    [at EXCEPT !.x = shape[k][1] * scale, !.y = shape[k][2] * scale,
               !.z = shape[k][3] * scale]

(***************************************************************************)
(* mol: the object as mol.__init__ creates it.  Atom indices stored in     *)
(* terms are 0-based, as in the source; sequences are 1-based, so atom i   *)
(* of the source is ml.atom[i + 1].                                        *)
(***************************************************************************)
mol0 ==
    [atom |-> <<>>, bond |-> <<>>, angle |-> <<>>, dihed |-> <<>>,
     dimpr |-> <<>>, m |-> 0, nmol |-> 0, topol |-> "none",
     ff |-> "", reconnect |-> FALSE]

\* self.atom[i]: a negative index counts from the end of the list
At(ml, i) == ml.atom[IF i < 0 THEN Len(ml.atom) + i + 1 ELSE i + 1]

Msg(kind, name) == [kind |-> kind, name |-> name]

(***************************************************************************)
(* mol.connectivity: atom types from the force field (every matching       *)
(* record assigns, so the last one stays), exit when an atom has no        *)
(* record, then one bond per atom pair and per matching bond record whose  *)
(* equilibrium length the distance passes.                                 *)
(***************************************************************************)
connAtomStep(ffatoms, st, k) ==
    IF st.t.name = ffatoms[k].name
    THEN [t |-> [st.t EXCEPT !.hastype = TRUE, !.type = ffatoms[k].type],
          found |-> TRUE]
    ELSE st

connAtomLoop(at, ffatoms) ==
    Fold(LAMBDA st, k : connAtomStep(ffatoms, st, k),
         [t |-> at, found |-> FALSE], 1, Len(ffatoms))

\* connBondStep storing the pair as bond(j, i)
connBondStepSwapped(ffbonds, bdname, r2, i, j, k) ==
    IF (bdname = ffbonds[k].iatp \o "-" \o ffbonds[k].jatp
          \/ bdname = ffbonds[k].jatp \o "-" \o ffbonds[k].iatp)
       /\ bond_checkval(ffbonds[k], r2)
    THEN <<bond(j, i)>> ELSE <<>>

\* connBondStep comparing the pair's name with the record's name as
\* written only
connBondStepForward(ffbonds, bdname, r2, i, j, k) ==
    IF bdname = ffbonds[k].iatp \o "-" \o ffbonds[k].jatp
       /\ bond_checkval(ffbonds[k], r2)
    THEN <<bond(i, j)>> ELSE <<>>

connBondStep(ffbonds, bdname, r2, i, j, k) ==
    IF (bdname = ffbonds[k].iatp \o "-" \o ffbonds[k].jatp
          \/ bdname = ffbonds[k].jatp \o "-" \o ffbonds[k].iatp)
       /\ bond_checkval(ffbonds[k], r2)
    THEN <<bond(i, j)>> ELSE <<>>

connPairBonds(atoms, ffbonds, i, j, bx) ==
    Let(<<atoms[i + 1].type \o "-" \o atoms[j + 1].type,
          dist2atoms(atoms[i + 1], atoms[j + 1], bx)>>,
        LAMBDA p :
          Concat(LAMBDA k : connBondStep(ffbonds, p[1], p[2], i, j, k),
                 1, Len(ffbonds)))

connBonds(atoms, ffbonds, bx) ==
    Concat(LAMBDA i1 :
             Concat(LAMBDA j1 :
                      connPairBonds(atoms, ffbonds, i1 - 1, j1 - 1, bx),
                    i1 + 1, Len(atoms)),
           1, Len(atoms) - 1)

connResult(ml, ff, res, bx) ==
    Let(Map(LAMBDA k : res[k].t, Len(res)),
        LAMBDA atoms :
          IF ff.err \/ \E k \in DOMAIN res : ~res[k].found
          THEN [err |-> TRUE, ml |-> [ml EXCEPT !.atom = atoms],
                out |-> Concat(LAMBDA k :
                                 IF res[k].found THEN <<>>
                                 ELSE <<Msg("error: no parameters for atom",
                                            res[k].t.name)>>,
                               1, Len(res))]
          ELSE [err |-> FALSE,
                ml |-> [ml EXCEPT
                          !.atom = atoms,
                          !.bond = ml.bond \o connBonds(atoms, ff.bond, bx)],
                out |-> <<>>])

connectivity(ml, bx) ==
    Let(forcefield(ml.ff),
        LAMBDA ff :
          Let(Map(LAMBDA k : connAtomLoop(ml.atom[k], ff.atom), Len(ml.atom)),
              LAMBDA res : connResult(ml, ff, res, bx)))

(***************************************************************************)
(* mol.anglesdiheds: angles from the neighbours of every atom, dihedrals   *)
(* from every bond k, every other bond l on k's first atom and every third *)
(* bond j on k's second atom.                                              *)
(***************************************************************************)
neighbours(bonds, i) ==
    Concat(LAMBDA b : IF i = bonds[b].i THEN <<bonds[b].j>>
                      ELSE IF i = bonds[b].j THEN <<bonds[b].i>>
                      ELSE <<>>,
           1, Len(bonds))

\* anglesOf with the inner loop starting at k
anglesOfFromK(bonds, i) ==
    Let(neighbours(bonds, i),
        LAMBDA neib :
          Concat(LAMBDA k :
                   Concat(LAMBDA l : <<angle(neib[k], i, neib[l])>>,
                          k, Len(neib)),
                 1, Len(neib) - 1))

anglesOf(bonds, i) ==
    Let(neighbours(bonds, i),
        LAMBDA neib :
          Concat(LAMBDA k :
                   Concat(LAMBDA l : <<angle(neib[k], i, neib[l])>>,
                          k + 1, Len(neib)),
                 1, Len(neib) - 1))

\* dihedsThird without the test j == k
dihedsThirdSkipL(bonds, k, l, first) ==
    Concat(LAMBDA j :
             IF j = l THEN <<>>
             ELSE IF bonds[k].j = bonds[j].i
                  THEN <<dihed(first, bonds[k].i, bonds[k].j, bonds[j].j)>>
             ELSE IF bonds[k].j = bonds[j].j
                  THEN <<dihed(first, bonds[k].i, bonds[k].j, bonds[j].i)>>
             ELSE <<>>,
           1, Len(bonds))

dihedsThird(bonds, k, l, first) ==
    Concat(LAMBDA j :
             IF j = k \/ j = l THEN <<>>
             ELSE IF bonds[k].j = bonds[j].i
                  THEN <<dihed(first, bonds[k].i, bonds[k].j, bonds[j].j)>>
             ELSE IF bonds[k].j = bonds[j].j
                  THEN <<dihed(first, bonds[k].i, bonds[k].j, bonds[j].i)>>
             ELSE <<>>,
           1, Len(bonds))

dihedsOf(bonds, k, l) ==
    IF k = l THEN <<>>
    ELSE IF bonds[k].i = bonds[l].i THEN dihedsThird(bonds, k, l, bonds[l].j)
    ELSE IF bonds[k].i = bonds[l].j THEN dihedsThird(bonds, k, l, bonds[l].i)
    ELSE <<>>

anglesdiheds(ml) ==
    [ml EXCEPT
       !.angle = ml.angle
                 \o Concat(LAMBDA i1 : anglesOf(ml.bond, i1 - 1),
                           1, Len(ml.atom)),
       !.dihed = ml.dihed
                 \o Concat(LAMBDA k :
                             Concat(LAMBDA l : dihedsOf(ml.bond, k, l),
                                    1, Len(ml.bond)),
                           1, Len(ml.bond))]

(***************************************************************************)
(* mol.fromzmat.  z is the parsed zmat object: zatom (name and bond        *)
(* reference ir of every record), connect and improper lines, ff and       *)
(* reconnect.  zmat2cart turns the r, a, d values of the records into      *)
(* positions; the model gives the file by the positions it describes       *)
(* (z.shape, z.scale).                                                     *)
(***************************************************************************)
RECURSIVE sumWeights(_, _)
sumWeights(zatom, k) ==
    IF k > Len(zatom) THEN 0
    ELSE atomic_weight(zatom[k].name) + sumWeights(zatom, k + 1)

zmat2cart(ml, z) ==
    [ml EXCEPT !.atom = Map(LAMBDA k : place(ml.atom[k], z.shape, z.scale, k),
                            Len(ml.atom))]

\* the bonds and impropers of the file, then the angles and dihedrals
zmatTopology(ml, z) ==
    Let([ml EXCEPT
           !.bond = ml.bond
                    \o Concat(LAMBDA i : <<bond(i, z.zatom[i + 1].ir - 1)>>,
                              1, Len(z.zatom) - 1)
                    \o Map(LAMBDA k : bond(z.connect[k][1] - 1,
                                           z.connect[k][2] - 1),
                           Len(z.connect)),
           !.topol = "file"],
        LAMBDA m2 : anglesdiheds(m2))

zmatImproper(z) ==
    Map(LAMBDA k : dihed(z.improper[k][1] - 1, z.improper[k][2] - 1,
                         z.improper[k][3] - 1, z.improper[k][4] - 1),
        Len(z.improper))

guessTopology(cn, topol) ==
    IF cn.err THEN cn
    ELSE [err |-> FALSE,
          ml |-> Let([cn.ml EXCEPT !.topol = topol],
                     LAMBDA m2 : anglesdiheds(m2)),
          out |-> <<>>]

\* fromzmat building the topology whenever connect is set, also for a
\* molecule without force field
fromzmatNoFF(z, conn) ==
    Let(zmat2cart([mol0 EXCEPT
                     !.reconnect = z.reconnect, !.ff = z.ff,
                     !.atom = Map(LAMBDA k : atom(z.zatom[k].name, 0),
                                  Len(z.zatom)),
                     !.m = sumWeights(z.zatom, 1)], z),
        LAMBDA m1 :
          IF ~conn
          THEN [err |-> FALSE, ml |-> m1, out |-> <<>>]
          ELSE IF ~z.reconnect
          THEN [err |-> FALSE,
                ml |-> [zmatTopology(m1, z) EXCEPT !.dimpr = zmatImproper(z)],
                out |-> <<>>]
          ELSE Let(guessTopology(connectivity(m1, None), "guess"),
                   LAMBDA r : IF r.err THEN r
                              ELSE [r EXCEPT !.ml.dimpr = zmatImproper(z)]))

fromzmat(z, conn) ==
    Let(zmat2cart([mol0 EXCEPT
                     !.reconnect = z.reconnect, !.ff = z.ff,
                     !.atom = Map(LAMBDA k : atom(z.zatom[k].name, 0),
                                  Len(z.zatom)),
                     !.m = sumWeights(z.zatom, 1)], z),
        LAMBDA m1 :
          IF ~(conn /\ z.ff # "")
          THEN [err |-> FALSE, ml |-> m1, out |-> <<>>]
          ELSE IF ~z.reconnect
          THEN [err |-> FALSE,
                ml |-> [zmatTopology(m1, z) EXCEPT !.dimpr = zmatImproper(z)],
                out |-> <<>>]
          ELSE Let(guessTopology(connectivity(m1, None), "guess"),
                   LAMBDA r : IF r.err THEN r
                              ELSE [r EXCEPT !.ml.dimpr = zmatImproper(z)]))

(***************************************************************************)
(* mol.frommdlmol.  f: name line (ff, rec: second and third token),        *)
(* comment line (ff3, rec3: its first and second token), atom lines        *)
(* (name, position), bond lines.                                           *)
(***************************************************************************)
mdlTopology(ml, f) ==
    Let([ml EXCEPT
           !.bond = Map(LAMBDA k : bond(f.bonds[k][1] - 1, f.bonds[k][2] - 1),
                        Len(f.bonds)),
           !.topol = "file"],
        LAMBDA m2 : anglesdiheds(m2))

frommdlmol(f, conn) ==
    Let([mol0 EXCEPT
           !.reconnect = IF f.ff # "" THEN f.rec ELSE (f.ff3 # "" /\ f.rec3),
           !.ff = IF f.ff # "" THEN f.ff ELSE f.ff3,
           !.atom = Map(LAMBDA k : place(atom(f.atoms[k], 0),
                                         f.shape, f.scale, k),
                        Len(f.atoms))],
        LAMBDA m1 :
          IF ~(conn /\ m1.ff # "")
          THEN [err |-> FALSE, ml |-> m1, out |-> <<>>]
          ELSE IF ~m1.reconnect
          THEN [err |-> FALSE, ml |-> mdlTopology(m1, f), out |-> <<>>]
          ELSE guessTopology(connectivity(m1, None), "guess"))

(***************************************************************************)
(* mol.fromxyz.  f: name line (ff: its last token when it has two), atom   *)
(* lines.                                                                  *)
(***************************************************************************)
fromxyz(f, conn, bx) ==
    Let([mol0 EXCEPT
           !.ff = f.ff,
           !.atom = Map(LAMBDA k : place(atom(f.atoms[k], 0),
                                         f.shape, f.scale, k),
                        Len(f.atoms))],
        LAMBDA m1 :
          IF ~(conn /\ m1.ff # "")
          THEN [err |-> FALSE, ml |-> m1, out |-> <<>>]
          ELSE guessTopology(connectivity(m1, bx),
                             IF bx.iscell /\ bx.pbc # {} THEN "pbc"
                             ELSE "guess"))

(***************************************************************************)
(* mol.setff, first branch: no force field.                                *)
(***************************************************************************)
setffDefault(ml) ==
    [ml EXCEPT !.atom = Map(LAMBDA k : atom_setpar(ml.atom[k],
                                                   ml.atom[k].name, 0, "lj",
                                                   <<0, 0>>),
                            Len(ml.atom))]

(***************************************************************************)
(* mol.setff, atoms: every record of equal name assigns its parameters     *)
(* (there is no break), a second match prints the duplicate warning.       *)
(***************************************************************************)
\* setffAtomStep adding the record's mass to the atom's mass
setffAtomStepAddMass(ffatoms, st, k) ==
    IF st.t.name = ffatoms[k].name
    THEN [t |-> [atom_setpar(st.t, ffatoms[k].type, ffatoms[k].q,
                             ffatoms[k].pot, ffatoms[k].par)
                   EXCEPT !.m = st.t.m + ffatoms[k].m],
          found |-> TRUE,
          out |-> IF st.found
                  THEN Append(st.out,
                              Msg("warning: duplicate atom", st.t.name))
                  ELSE st.out]
    ELSE st

setffAtomStep(ffatoms, st, k) ==
    IF st.t.name = ffatoms[k].name
    THEN [t |-> [atom_setpar(st.t, ffatoms[k].type, ffatoms[k].q,
                             ffatoms[k].pot, ffatoms[k].par)
                   EXCEPT !.m = ffatoms[k].m],
          found |-> TRUE,
          out |-> IF st.found
                  THEN Append(st.out,
                              Msg("warning: duplicate atom", st.t.name))
                  ELSE st.out]
    ELSE st

setffAtomLoop(at, ffatoms) ==
    Fold(LAMBDA st, k : setffAtomStep(ffatoms, st, k),
         [t |-> at, found |-> FALSE, out |-> <<>>], 1, Len(ffatoms))

\* one iteration of "for at in self.atom"; st: the atoms done, the output
\* and the error flag
setffAtom(ml, ff, st, k) ==
    Let(setffAtomLoop(ml.atom[k], ff.atom),
        LAMBDA r :
          [done |-> Append(st.done, r.t),
           out |-> st.out \o r.out
                   \o (IF r.found THEN <<>>
                       ELSE <<Msg("error: no parameters for atom",
                                  r.t.name)>>),
           error |-> st.error \/ ~r.found])

\* setffAtoms going on to the bonds although an atom has no record
setffAtomsNoExit(ml) ==
    Let(forcefield(ml.ff),
        LAMBDA ff :
          Let(Fold(LAMBDA st, k : setffAtom(ml, ff, st, k),
                   [done |-> <<>>, out |-> <<>>, error |-> FALSE],
                   1, Len(ml.atom)),
              LAMBDA s : [pc |-> "bonds",
                          ml |-> [ml EXCEPT !.atom = s.done],
                          out |-> s.out]))

setffAtoms(ml) ==
    Let(forcefield(ml.ff),
        LAMBDA ff :
          IF ff.err
          THEN [pc |-> "fatal", ml |-> ml,
                out |-> <<Msg("error: unkown potential", ml.ff)>>]
          ELSE Let(Fold(LAMBDA st, k : setffAtom(ml, ff, st, k),
                        [done |-> <<>>, out |-> <<>>, error |-> FALSE],
                        1, Len(ml.atom)),
                   LAMBDA s :
                     [pc |-> IF s.error THEN "fatal" ELSE "bonds",
                      ml |-> [ml EXCEPT !.atom = s.done],
                      out |-> s.out]))

(***************************************************************************)
(* mol.setff, bonds: the bond is named from its atoms' types, every record *)
(* matching that name forwards or backwards assigns its parameters (and    *)
(* with them its own name), a record whose equilibrium length the          *)
(* distance fails prints a warning; a bond without record is an error and  *)
(* the run exits after the loop.                                           *)
(***************************************************************************)
\* setffBondStep taking a record whose equilibrium length the distance
\* fails as no match
setffBondStepValid(ffbonds, r2, st, k) ==
    IF (st.t.name = ffbonds[k].iatp \o "-" \o ffbonds[k].jatp
          \/ st.t.name = ffbonds[k].jatp \o "-" \o ffbonds[k].iatp)
       /\ bond_checkval(ffbonds[k], r2)
    THEN [t |-> bond_setpar(st.t, ffbonds[k].iatp, ffbonds[k].jatp,
                            ffbonds[k].pot, ffbonds[k].par),
          found |-> TRUE,
          out |-> st.out
                  \o (IF st.found
                      THEN <<Msg("warning: duplicate bond", st.t.name)>>
                      ELSE <<>>)]
    ELSE st

setffBondStep(ffbonds, r2, st, k) ==
    IF st.t.name = ffbonds[k].iatp \o "-" \o ffbonds[k].jatp
       \/ st.t.name = ffbonds[k].jatp \o "-" \o ffbonds[k].iatp
    THEN [t |-> bond_setpar(st.t, ffbonds[k].iatp, ffbonds[k].jatp,
                            ffbonds[k].pot, ffbonds[k].par),
          found |-> TRUE,
          out |-> st.out
                  \o (IF st.found
                      THEN <<Msg("warning: duplicate bond", st.t.name)>>
                      ELSE <<>>)
                  \o (IF ~bond_checkval(ffbonds[k], r2)
                      THEN <<Msg("warning: bond",
                                 ffbonds[k].iatp \o "-" \o ffbonds[k].jatp)>>
                      ELSE <<>>)]
    ELSE st

setffBondLoop(bd, ffbonds, r2) ==
    Fold(LAMBDA st, k : setffBondStep(ffbonds, r2, st, k),
         [t |-> bd, found |-> FALSE, out |-> <<>>], 1, Len(ffbonds))

bondNamed(ml, bd) ==
    [bd EXCEPT !.hasname = TRUE,
               !.name = At(ml, bd.i).type \o "-" \o At(ml, bd.j).type]

\* one iteration of "for bd in self.bond"
setffBond(ml, ff, bx, st, k) ==
    Let(setffBondLoop(bondNamed(ml, ml.bond[k]), ff.bond,
                      dist2atoms(At(ml, ml.bond[k].i), At(ml, ml.bond[k].j),
                                 bx)),
        LAMBDA r :
          [done |-> Append(st.done, r.t),
           out |-> st.out \o r.out
                   \o (IF r.found THEN <<>>
                       ELSE <<Msg("error: no parameters for bond",
                                  r.t.name)>>),
           error |-> st.error \/ ~r.found])

setffBonds(ml, bx) ==
    Let(forcefield(ml.ff),
        LAMBDA ff :
          Let(Fold(LAMBDA st, k : setffBond(ml, ff, bx, st, k),
                   [done |-> <<>>, out |-> <<>>, error |-> FALSE],
                   1, Len(ml.bond)),
              LAMBDA s :
                [pc |-> IF s.error THEN "fatal" ELSE "angles",
                 ml |-> [ml EXCEPT !.bond = s.done],
                 out |-> s.out]))

(***************************************************************************)
(* mol.setff, angles, dihedrals and impropers iterate over a copy of the   *)
(* list and remove terms from the list itself.  The state of each loop is  *)
(* kept (the terms handled so far that stay in the list, in their order;   *)
(* list.remove finds the term itself: the classes define no equality),     *)
(* out, miss (the list of missing names) and raised (the index in the copy *)
(* of the term whose iteration raised an exception, 0 when none did).      *)
(***************************************************************************)
\* missAppend without the test "name not in list"
missAppendAll(ms, found, name) ==
    IF found THEN ms ELSE Append(ms, name)

missAppend(ms, found, name) ==
    IF found \/ name \in Range(ms) THEN ms ELSE Append(ms, name)

setffAngleStep(ffangles, th, st, k) ==
    IF st.t.name = ffangles[k].iatp \o "-" \o ffangles[k].jatp \o "-"
                   \o ffangles[k].katp
       \/ st.t.name = ffangles[k].katp \o "-" \o ffangles[k].jatp \o "-"
                      \o ffangles[k].iatp
    THEN [t |-> angle_setpar(st.t, ffangles[k].iatp, ffangles[k].jatp,
                             ffangles[k].katp, ffangles[k].pot,
                             ffangles[k].par),
          found |-> TRUE,
          check |-> st.check /\ angle_checkval(ffangles[k], th),
          out |-> IF st.found
                  THEN Append(st.out,
                              Msg("warning: duplicate angle", st.t.name))
                  ELSE st.out]
    ELSE st

setffAngleLoop(an, ffangles, th) ==
    Fold(LAMBDA st, k : setffAngleStep(ffangles, th, st, k),
         [t |-> an, found |-> FALSE, check |-> TRUE, out |-> <<>>],
         1, Len(ffangles))

angleNamed(ml, an) ==
    [an EXCEPT !.hasname = TRUE,
               !.name = At(ml, an.i).type \o "-" \o At(ml, an.j).type \o "-"
                        \o At(ml, an.k).type]

setffAngleMatch(ml, ff, an, th, st) ==
    Let(setffAngleLoop(an, ff.angle, th),
        LAMBDA r :
          [kept |-> IF r.found /\ r.check THEN Append(st.kept, r.t)
                    ELSE st.kept,
           out |-> st.out \o r.out
                   \o (IF r.check THEN <<>>
                       ELSE <<Msg("warning: angle removed", r.t.name)>>),
           miss |-> missAppend(st.miss, r.found, r.t.name),
           raised |-> 0])

\* one iteration of "for an in list(self.angle)"
setffAngle(ml, ff, bx, fpup, st, k) ==
    IF st.raised # 0 THEN st
    ELSE Let(<<angleNamed(ml, ml.angle[k]),
               angle3atoms(At(ml, ml.angle[k].i), At(ml, ml.angle[k].j),
                           At(ml, ml.angle[k].k), bx, fpup)>>,
             LAMBDA p :
               IF p[2].err
               THEN [st EXCEPT !.kept = Append(@, p[1]), !.raised = k]
               ELSE setffAngleMatch(ml, ff, p[1], p[2].th, st))

\* the list after the loop: the terms after a raising one were not reached
listAfter(s, copy) ==
    s.kept \o (IF s.raised = 0 THEN <<>>
               ELSE SubSeq(copy, s.raised + 1, Len(copy)))

setffAngles(ml, bx, fpup, anmiss) ==
    Let(forcefield(ml.ff),
        LAMBDA ff :
          Let(Fold(LAMBDA st, k : setffAngle(ml, ff, bx, fpup, st, k),
                   [kept |-> <<>>, out |-> <<>>, miss |-> anmiss,
                    raised |-> 0],
                   1, Len(ml.angle)),
              LAMBDA s :
                [pc |-> IF s.raised = 0 THEN "diheds" ELSE "crash",
                 ml |-> [ml EXCEPT !.angle = listAfter(s, ml.angle)],
                 out |-> s.out,
                 miss |-> s.miss]))

(***************************************************************************)
(* mol.setff, dihedrals.  The duplicate warning of this loop prints        *)
(* di.name, and di is the variable of the improper loop further down: it   *)
(* is unbound here, so a second matching record raises UnboundLocalError.  *)
(***************************************************************************)
setffDihedStep(ffdiheds, st, k) ==
    IF st.raised THEN st
    ELSE IF st.t.name = ffdiheds[k].iatp \o "-" \o ffdiheds[k].jatp \o "-"
                        \o ffdiheds[k].katp \o "-" \o ffdiheds[k].latp
            \/ st.t.name = ffdiheds[k].latp \o "-" \o ffdiheds[k].katp \o "-"
                           \o ffdiheds[k].jatp \o "-" \o ffdiheds[k].iatp
    THEN IF st.found THEN [st EXCEPT !.raised = TRUE]
         ELSE [t |-> dihed_setpar(st.t, ffdiheds[k].iatp, ffdiheds[k].jatp,
                                  ffdiheds[k].katp, ffdiheds[k].latp,
                                  ffdiheds[k].pot, ffdiheds[k].par),
               found |-> TRUE, raised |-> FALSE]
    ELSE st

setffDihedLoop(dh, ffdiheds) ==
    Fold(LAMBDA st, k : setffDihedStep(ffdiheds, st, k),
         [t |-> dh, found |-> FALSE, raised |-> FALSE], 1, Len(ffdiheds))

dihedNamed(ml, dh) ==
    [dh EXCEPT !.hasname = TRUE,
               !.name = At(ml, dh.i).type \o "-" \o At(ml, dh.j).type \o "-"
                        \o At(ml, dh.k).type \o "-" \o At(ml, dh.l).type]

\* one iteration of "for dh in list(self.dihed)"
setffDihed(ml, ff, st, k) ==
    IF st.raised # 0 THEN st
    ELSE Let(setffDihedLoop(dihedNamed(ml, ml.dihed[k]), ff.dihed),
             LAMBDA r :
               IF r.raised
               THEN [st EXCEPT !.kept = Append(@, r.t), !.raised = k]
               ELSE [kept |-> IF r.found THEN Append(st.kept, r.t)
                              ELSE st.kept,
                     out |-> st.out,
                     miss |-> missAppend(st.miss, r.found, r.t.name),
                     raised |-> 0])

setffDiheds(ml, dhmiss) ==
    Let(forcefield(ml.ff),
        LAMBDA ff :
          Let(Fold(LAMBDA st, k : setffDihed(ml, ff, st, k),
                   [kept |-> <<>>, out |-> <<>>, miss |-> dhmiss,
                    raised |-> 0],
                   1, Len(ml.dihed)),
              LAMBDA s :
                [pc |-> IF s.raised = 0 THEN "dimprs" ELSE "crash",
                 ml |-> [ml EXCEPT !.dihed = listAfter(s, ml.dihed)],
                 out |-> s.out,
                 miss |-> s.miss]))

(***************************************************************************)
(* mol.setff, impropers.                                                   *)
(***************************************************************************)
setffDimprStep(ffdimprs, st, k) ==
    IF st.t.name = ffdimprs[k].iatp \o "-" \o ffdimprs[k].jatp \o "-"
                   \o ffdimprs[k].katp \o "-" \o ffdimprs[k].latp
       \/ st.t.name = ffdimprs[k].latp \o "-" \o ffdimprs[k].katp \o "-"
                      \o ffdimprs[k].jatp \o "-" \o ffdimprs[k].iatp
    THEN [t |-> dihed_setpar(st.t, ffdimprs[k].iatp, ffdimprs[k].jatp,
                             ffdimprs[k].katp, ffdimprs[k].latp,
                             ffdimprs[k].pot, ffdimprs[k].par),
          found |-> TRUE,
          out |-> IF st.found
                  THEN Append(st.out,
                              Msg("warning: duplicate improper", st.t.name))
                  ELSE st.out]
    ELSE st

setffDimprLoop(di, ffdimprs) ==
    Fold(LAMBDA st, k : setffDimprStep(ffdimprs, st, k),
         [t |-> di, found |-> FALSE, out |-> <<>>], 1, Len(ffdimprs))

\* setffDimpr leaving an improper without record in the list
setffDimprKeep(ml, ff, st, k) ==
    Let(setffDimprLoop(dihedNamed(ml, ml.dimpr[k]), ff.dimpr),
        LAMBDA r :
          [kept |-> Append(st.kept, r.t),
           out |-> st.out \o r.out,
           miss |-> missAppend(st.miss, r.found, r.t.name),
           raised |-> 0])

\* one iteration of "for di in list(self.dimpr)"
setffDimpr(ml, ff, st, k) ==
    Let(setffDimprLoop(dihedNamed(ml, ml.dimpr[k]), ff.dimpr),
        LAMBDA r :
          [kept |-> IF r.found THEN Append(st.kept, r.t) ELSE st.kept,
           out |-> st.out \o r.out,
           miss |-> missAppend(st.miss, r.found, r.t.name),
           raised |-> 0])

setffDimprs(ml, dimiss) ==
    Let(forcefield(ml.ff),
        LAMBDA ff :
          Let(Fold(LAMBDA st, k : setffDimpr(ml, ff, st, k),
                   [kept |-> <<>>, out |-> <<>>, miss |-> dimiss,
                    raised |-> 0],
                   1, Len(ml.dimpr)),
              LAMBDA s :
                [pc |-> "report",
                 ml |-> [ml EXCEPT !.dimpr = s.kept],
                 out |-> s.out,
                 miss |-> s.miss]))

(***************************************************************************)
(* mol.setff, the report of the missing parameters.                        *)
(***************************************************************************)
setffReport(ms) ==
    IF Len(ms.an) > 0 \/ Len(ms.dh) > 0 \/ Len(ms.di) > 0
    THEN <<Msg("warning: missing force field parameters", "")>>
         \o Map(LAMBDA k : Msg("angle type", ms.an[k]), Len(ms.an))
         \o Map(LAMBDA k : Msg("dihedral type", ms.dh[k]), Len(ms.dh))
         \o Map(LAMBDA k : Msg("improper type", ms.di[k]), Len(ms.di))
    ELSE <<>>

(***************************************************************************)
(* mol.setff(box) as one call.  pc of the result is "done" when the call   *)
(* returns, "fatal" when it ends in sys.exit(1) and "crash" when it ends   *)
(* in an exception.                                                        *)
(***************************************************************************)
setffTerms(ml, bx, fpup) ==
    Let(setffAngles(ml, bx, fpup, <<>>),
        LAMBDA r3 :
          IF r3.pc = "crash"
          THEN [pc |-> "crash", ml |-> r3.ml, out |-> r3.out]
          ELSE Let(setffDiheds(r3.ml, <<>>),
                   LAMBDA r4 :
                     IF r4.pc = "crash"
                     THEN [pc |-> "crash", ml |-> r4.ml,
                           out |-> r3.out \o r4.out]
                     ELSE Let(setffDimprs(r4.ml, <<>>),
                              LAMBDA r5 :
                                [pc |-> "done", ml |-> r5.ml,
                                 out |-> r3.out \o r4.out \o r5.out
                                         \o setffReport([an |-> r3.miss,
                                                         dh |-> r4.miss,
                                                         di |-> r5.miss])])))

setff(ml, bx, fpup) ==
    IF ml.ff = ""
    THEN [pc |-> "done", ml |-> setffDefault(ml), out |-> <<>>]
    ELSE Let(setffAtoms(ml),
             LAMBDA r1 :
               IF r1.pc = "fatal" THEN r1
               ELSE Let(setffBonds(r1.ml, bx),
                        LAMBDA r2 :
                          IF r2.pc = "fatal"
                          THEN [r2 EXCEPT !.out = r1.out \o @]
                          ELSE Let(setffTerms(r2.ml, bx, fpup),
                                   LAMBDA r :
                                     [r EXCEPT
                                        !.out = r1.out \o r2.out \o @])))

(***************************************************************************)
(* The input files of the single-molecule runs.                            *)
(***************************************************************************)
\* bond references of a z-matrix: record k refers to atom 1 or to atom k-1;
\* the second record may also give 0 as its reference (atom 2 is placed at
\* its distance r along x whatever its reference)
IrSets(n) ==
    {ir \in [1..n -> 0..n] :
        /\ ir[1] = 0
        /\ \A k \in 2..n : ir[k] \in {1, k - 1} \cup (IF k = 2 THEN {0} ELSE {})}

IrChain(n) == [k \in 1..n |-> k - 1]

\* connect lines of a z-matrix: none, or one between the first and last atom
ConnSets(n) ==
    IF n < 2 THEN {<<>>} ELSE {<<>>, << <<1, n>> >>, << <<n, 1>> >>}

\* improper lines of a z-matrix
ImprSets(n) ==
    IF n < 3 THEN {<<>>}
    ELSE LET c1 == <<1, 2, 3, n>>
             c2 == <<n, 2, 1, 3>>
         IN  {<<>>, <<c1>>, <<c2>>, <<c1, c2>>, <<c1, c1>>}

\* bond lines of an MDL file: none, a chain, a chain written backwards,
\* and a chain closed to a ring
MdlBondSets(n) ==
    LET fwd == [k \in 1..(n - 1) |-> <<k, k + 1>>]
        bwd == [k \in 1..(n - 1) |-> <<k + 1, k>>]
    IN  {<<>>, fwd, bwd} \cup (IF n < 3 THEN {} ELSE {Append(fwd, <<n, 1>>)})

miss0 == [an |-> <<>>, dh |-> <<>>, di |-> <<>>]

sys0 ==
    [attype |-> <<>>, bdtype |-> <<>>, antype |-> <<>>, dhtype |-> <<>>,
     ditype |-> <<>>, vdw |-> <<>>]

\* no vdw call under way, and no vdw object
pair0 == [iat |-> atom("", 0), jat |-> atom("", 0), mix |-> ""]

nb0 == [i |-> "", j |-> "", haspot |-> FALSE, haspar |-> FALSE]

\* the zmat object as zmat.__init__ creates it, before it reads the file
z0 == [zatom |-> <<>>, connect |-> <<>>, improper |-> <<>>, ff |-> "",
       reconnect |-> FALSE]

(***************************************************************************)
(* mol.__init__ of one input file: the from... method of its extension.    *)
(***************************************************************************)
FromZmat ==
    /\ pc = "start"
    /\ \E n \in 1..MaxAtoms, shape \in Shapes, scale \in Scales,
          ff \in FFNames \cup {""} :
         \E names \in [1..n -> AtomNames],
            rec \in (IF ff = "" THEN {FALSE} ELSE BOOLEAN) :
           LET topo == connect /\ ff # "" /\ ~rec
               used == connect /\ ff # ""
           IN  \E irs \in (IF topo THEN IrSets(n) ELSE {IrChain(n)}),
                  cn \in (IF topo THEN ConnSets(n) ELSE {<<>>}),
                  im \in (IF used THEN ImprSets(n) ELSE {<<>>}) :
                 \E r \in {fromzmat(
                              [zatom |-> [k \in 1..n |->
                                            [name |-> names[k],
                                             ir |-> irs[k]]],
                               shape |-> shape, scale |-> scale,
                               connect |-> cn, improper |-> im,
                               ff |-> ff, reconnect |-> rec], connect)} :
                   /\ m' = r.ml
                   /\ out' = out \o r.out
                   /\ pc' = IF r.err THEN "fatal" ELSE "setff"
    /\ fmt' = "zmat"
    /\ UNCHANGED <<connect, box, miss, spec, sys, written, pair, nb, zm, zlines>>

FromMdlmol ==
    /\ pc = "start"
    /\ \E n \in 1..MaxAtoms, shape \in Shapes, scale \in Scales,
          ff \in FFNames \cup {""} :
         \E names \in [1..n -> AtomNames],
            rec \in (IF ff = "" THEN {FALSE} ELSE BOOLEAN),
            ff3 \in (IF ff = "" THEN {"", "a"} ELSE {""}) :
           \E rec3 \in (IF ff3 = "" THEN {FALSE} ELSE BOOLEAN) :
             LET topo == connect /\ (ff # "" \/ ff3 # "") /\ ~rec /\ ~rec3
             IN  \E bds \in (IF topo THEN MdlBondSets(n) ELSE {<<>>}) :
                   \E r \in {frommdlmol(
                                [atoms |-> names, shape |-> shape,
                                 scale |-> scale, ff |-> ff, rec |-> rec,
                                 ff3 |-> ff3, rec3 |-> rec3, bonds |-> bds],
                                connect)} :
                     /\ m' = r.ml
                     /\ out' = out \o r.out
                     /\ pc' = IF r.err THEN "fatal" ELSE "setff"
    /\ fmt' = "mol"
    /\ UNCHANGED <<connect, box, miss, spec, sys, written, pair, nb, zm, zlines>>

FromXyz ==
    /\ pc = "start"
    /\ \E n \in 1..MaxAtoms, shape \in Shapes, scale \in Scales,
          ff \in FFNames \cup {""} :
         \E names \in [1..n -> AtomNames] :
           \E r \in {fromxyz([atoms |-> names, shape |-> shape,
                                scale |-> scale, ff |-> ff], connect, box)} :
             /\ m' = r.ml
             /\ out' = out \o r.out
             /\ pc' = IF r.err THEN "fatal" ELSE "setff"
    /\ fmt' = "xyz"
    /\ UNCHANGED <<connect, box, miss, spec, sys, written, pair, nb, zm, zlines>>

(***************************************************************************)
(* mol.setff(box), one action per loop of the method.                      *)
(***************************************************************************)
SetffDefault ==
    /\ pc = "setff"
    /\ m.ff = ""
    /\ m' = setffDefault(m)
    /\ pc' = "done"
    /\ UNCHANGED <<connect, box, fmt, out, miss, spec, sys, written, pair,
                   nb, zm, zlines>>

SetffAtoms ==
    /\ pc = "setff"
    /\ m.ff # ""
    /\ \E r \in {setffAtoms(m)} :
         /\ m' = r.ml
         /\ out' = out \o r.out
         /\ pc' = r.pc
    /\ UNCHANGED <<connect, box, fmt, miss, spec, sys, written, pair, nb,
                   zm, zlines>>

SetffBonds ==
    /\ pc = "bonds"
    /\ \E r \in {setffBonds(m, box)} :
         /\ m' = r.ml
         /\ out' = out \o r.out
         /\ pc' = r.pc
    /\ UNCHANGED <<connect, box, fmt, miss, spec, sys, written, pair, nb,
                   zm, zlines>>

SetffAngles ==
    /\ pc = "angles"
    /\ \E fpup \in BOOLEAN :
         \E r \in {setffAngles(m, box, fpup, miss.an)} :
           /\ m' = r.ml
           /\ out' = out \o r.out
           /\ miss' = [miss EXCEPT !.an = r.miss]
           /\ pc' = r.pc
    /\ UNCHANGED <<connect, box, fmt, spec, sys, written, pair, nb, zm, zlines>>

SetffDiheds ==
    /\ pc = "diheds"
    /\ \E r \in {setffDiheds(m, miss.dh)} :
         /\ m' = r.ml
         /\ out' = out \o r.out
         /\ miss' = [miss EXCEPT !.dh = r.miss]
         /\ pc' = r.pc
    /\ UNCHANGED <<connect, box, fmt, spec, sys, written, pair, nb, zm, zlines>>

SetffDimprs ==
    /\ pc = "dimprs"
    /\ \E r \in {setffDimprs(m, miss.di)} :
         /\ m' = r.ml
         /\ out' = out \o r.out
         /\ miss' = [miss EXCEPT !.di = r.miss]
         /\ pc' = r.pc
    /\ UNCHANGED <<connect, box, fmt, spec, sys, written, pair, nb, zm, zlines>>

SetffReport ==
    /\ pc = "report"
    /\ out' = out \o setffReport(miss)
    /\ pc' = "done"
    /\ UNCHANGED <<connect, box, fmt, m, miss, spec, sys, written, pair,
                   nb, zm, zlines>>

(***************************************************************************)
(* A second mol.setff(box) on the molecule the constructor returned.  The  *)
(* call computes the angles the first call computed, from the same atoms,  *)
(* so its cosines round as they did there: not above 1, since the first    *)
(* call returned.                                                          *)
(***************************************************************************)
SetffAgain ==
    /\ pc = "done"
    /\ \E r \in {setff(m, box, FALSE)} :
         /\ m' = r.ml
         /\ out' = out \o r.out
         /\ pc' = IF r.pc = "done" THEN "again" ELSE r.pc
    /\ UNCHANGED <<connect, box, fmt, miss, spec, sys, written, pair, nb,
                   zm, zlines>>

(***************************************************************************)
(* Single-molecule runs: one mol(filename, connect, box), and a second     *)
(* setff on its result.                                                    *)
(***************************************************************************)
Init ==
    /\ pc = "start"
    /\ connect \in BOOLEAN
    /\ box \in BoxSet
    /\ fmt = ""
    /\ m = mol0
    /\ out = <<>>
    /\ miss = miss0
    /\ spec = <<>>
    /\ sys = sys0
    /\ written = <<>>
    /\ pair = pair0
    /\ nb = nb0
    /\ zm = z0
    /\ zlines = <<>>

Next ==
    \/ FromZmat
    \/ FromMdlmol
    \/ FromXyz
    \/ SetffDefault
    \/ SetffAtoms
    \/ SetffBonds
    \/ SetffAngles
    \/ SetffDiheds
    \/ SetffDimprs
    \/ SetffReport
    \/ SetffAgain

Spec == Init /\ [][Next]_vars

(***************************************************************************)
(* mol(filename, connect, box): the constructor followed by setff.         *)
(***************************************************************************)
mol(file, conn, bx, fpup) ==
    Let(CASE file.fmt = "zmat" -> fromzmat(file.f, conn)
          [] file.fmt = "mol" -> frommdlmol(file.f, conn)
          [] file.fmt = "xyz" -> fromxyz(file.f, conn, bx),
        LAMBDA r :
          IF r.err THEN [pc |-> "fatal", ml |-> r.ml, out |-> r.out]
          ELSE Let(setff(r.ml, bx, fpup),
                   LAMBDA s : [s EXCEPT !.out = r.out \o @]))

(***************************************************************************)
(* class vdw.  The mixed parameters are square roots and means; the model  *)
(* keeps them as the operation and its argument.  err is sys.exit(1);      *)
(* crash is an exception: math.sqrt of a negative product (ValueError) or  *)
(* a parameter list shorter than the index read from it (IndexError).      *)
(***************************************************************************)
mixed(op, arg) == [op |-> op, arg |-> arg]

\* the object after the first four assignments of vdw.__init__
vdwNames(iat, jat) ==
    [i |-> iat.name, j |-> jat.name, ityp |-> iat.ityp, jtyp |-> jat.ityp,
     haspot |-> FALSE, haspar |-> FALSE]

\* the 'lj' branch for two different names raises
vdwRaises(iat, jat, mix) ==
    \/ Len(iat.par) < 2
    \/ mix = "g" /\ iat.par[1] * jat.par[1] < 0
    \/ iat.par[2] * jat.par[2] < 0

\* vdw taking the second mixed parameter from the first atom type alone
vdwOwnSize(iat, jat, mix) ==
    IF iat.pot # jat.pot \/ Len(iat.par) # Len(jat.par)
    THEN [err |-> TRUE, crash |-> FALSE, v |-> vdwNames(iat, jat)]
    ELSE IF iat.pot = "lj" /\ iat.name # jat.name /\ vdwRaises(iat, jat, mix)
    THEN [err |-> FALSE, crash |-> TRUE, v |-> vdwNames(iat, jat)]
    ELSE [err |-> FALSE, crash |-> FALSE,
          v |-> [i |-> iat.name, j |-> jat.name,
                 ityp |-> iat.ityp, jtyp |-> jat.ityp,
                 haspot |-> TRUE, pot |-> iat.pot,
                 haspar |-> iat.pot = "lj",
                 par |-> IF iat.pot # "lj" THEN <<>>
                         ELSE IF iat.name = jat.name THEN iat.par
                         ELSE <<IF mix = "g"
                                THEN mixed("sqrt", iat.par[1] * jat.par[1])
                                ELSE mixed("half", iat.par[1] + jat.par[1]),
                                mixed("sqrt", iat.par[2] * iat.par[2])>>]]

vdw(iat, jat, mix) ==
    IF iat.pot # jat.pot \/ Len(iat.par) # Len(jat.par)
    THEN [err |-> TRUE, crash |-> FALSE, v |-> vdwNames(iat, jat)]
    ELSE IF iat.pot = "lj" /\ iat.name # jat.name /\ vdwRaises(iat, jat, mix)
    THEN [err |-> FALSE, crash |-> TRUE, v |-> vdwNames(iat, jat)]
    ELSE [err |-> FALSE, crash |-> FALSE,
          v |-> [i |-> iat.name, j |-> jat.name,
                 ityp |-> iat.ityp, jtyp |-> jat.ityp,
                 haspot |-> TRUE, pot |-> iat.pot,
                 haspar |-> iat.pot = "lj",
                 par |-> IF iat.pot # "lj" THEN <<>>
                         ELSE IF iat.name = jat.name THEN iat.par
                         ELSE <<IF mix = "g"
                                THEN mixed("sqrt", iat.par[1] * jat.par[1])
                                ELSE mixed("half", iat.par[1] + jat.par[1]),
                                mixed("sqrt", iat.par[2] * jat.par[2])>>]]

(***************************************************************************)
(* class system.  A type table holds the first-seen terms themselves, so   *)
(* an index written to a table entry is also the index of that term.       *)
(***************************************************************************)
build_type_list(term, termtype) ==
    Fold(LAMBDA tt, k :
           IF \E b \in DOMAIN tt : term[k].name = tt[b].name THEN tt
           ELSE Append(tt, term[k]),
         termtype, 1, Len(term))

\* typeIndex counting the table positions from 1
typeIndexFromOne(name, termtype) ==
    IF \E i \in DOMAIN termtype : termtype[i].name = name
    THEN CHOOSE i \in DOMAIN termtype :
            /\ termtype[i].name = name
            /\ \A h \in 1..(i - 1) : termtype[h].name # name
    ELSE -1

\* the first i in range(ntypes) with a.name == termtype[i].name, or -1
typeIndex(name, termtype) ==
    IF \E i \in DOMAIN termtype : termtype[i].name = name
    THEN (CHOOSE i \in DOMAIN termtype :
            /\ termtype[i].name = name
            /\ \A h \in 1..(i - 1) : termtype[h].name # name) - 1
    ELSE -1

\* assignStep writing the position of the term in its own list
assignStepOwn(term, st, k) ==
    Let(typeIndex(term[k].name, st.termtype),
        LAMBDA i :
          IF i < 0 THEN [st EXCEPT !.term = Append(@, term[k])]
          ELSE [term |-> Append(st.term, [term[k] EXCEPT !.ityp = k - 1]),
                termtype |-> [st.termtype EXCEPT ![i + 1].ityp = i]])

assignStep(term, st, k) ==
    Let(typeIndex(term[k].name, st.termtype),
        LAMBDA i :
          IF i < 0 THEN [st EXCEPT !.term = Append(@, term[k])]
          ELSE [term |-> Append(st.term, [term[k] EXCEPT !.ityp = i]),
                termtype |-> [st.termtype EXCEPT ![i + 1].ityp = i]])

assign_type_index(term, termtype) ==
    Fold(LAMBDA st, k : assignStep(term, st, k),
         [term |-> <<>>, termtype |-> termtype], 1, Len(term))

\* the two loops of system.__init__ over the species, for one category
buildTable(sp, cat) ==
    Fold(LAMBDA tt, s : build_type_list(sp[s][cat], tt), <<>>, 1, Len(sp))

assignTable(sp, cat, termtype) ==
    Fold(LAMBDA st, s :
           Let(assign_type_index(st.spec[s][cat], st.termtype),
               LAMBDA r : [spec |-> [st.spec EXCEPT ![s][cat] = r.term],
                           termtype |-> r.termtype]),
         [spec |-> sp, termtype |-> termtype], 1, Len(sp))

typeTable(sp, cat) == assignTable(sp, cat, buildTable(sp, cat))

\* vdwList with the inner loop over range(nattypes)
vdwListSquare(attype, mix) ==
    Concat(LAMBDA i :
             Concat(LAMBDA j : <<vdw(attype[i], attype[j], mix)>>,
                    1, Len(attype)),
           1, Len(attype))

vdwList(attype, mix) ==
    Concat(LAMBDA i :
             Concat(LAMBDA j : <<vdw(attype[i], attype[j], mix)>>,
                    i, Len(attype)),
           1, Len(attype))

\* the number of vdw objects appended before the first call that ends the run
vdwBuilt(vl) ==
    IF \E k \in DOMAIN vl : vl[k].err \/ vl[k].crash
    THEN (CHOOSE k \in DOMAIN vl :
            /\ vl[k].err \/ vl[k].crash
            /\ \A h \in 1..(k - 1) : ~vl[h].err /\ ~vl[h].crash) - 1
    ELSE Len(vl)

system(sp, mix) ==
    Let(typeTable(sp, "atom"), LAMBDA at :
    Let(typeTable(at.spec, "bond"), LAMBDA bd :
    Let(typeTable(bd.spec, "angle"), LAMBDA an :
    Let(typeTable(an.spec, "dihed"), LAMBDA dh :
    Let(typeTable(dh.spec, "dimpr"), LAMBDA di :
    Let(vdwList(at.termtype, mix), LAMBDA vl :
    Let(vdwBuilt(vl), LAMBDA n :
      [err |-> n < Len(vl) /\ vl[n + 1].err,
       crash |-> n < Len(vl) /\ vl[n + 1].crash,
       spec |-> di.spec,
       sys |-> [attype |-> at.termtype, bdtype |-> bd.termtype,
                antype |-> an.termtype, dhtype |-> dh.termtype,
                ditype |-> di.termtype,
                vdw |-> Map(LAMBDA k : vl[k].v, n)]])))))))

(***************************************************************************)
(* The input files of the system runs.                                     *)
(***************************************************************************)
zfile(names, ff, rec, cn, im, scale) ==
    [fmt |-> "zmat",
     f |-> [zatom |-> [k \in DOMAIN names |-> [name |-> names[k], ir |-> k - 1]],
            shape |-> Ring, scale |-> scale, connect |-> cn, improper |-> im,
            ff |-> ff, reconnect |-> rec]]

mdlfile(names, ff, bds, scale) ==
    [fmt |-> "mol",
     f |-> [atoms |-> names, shape |-> Ring, scale |-> scale, ff |-> ff,
            rec |-> FALSE, ff3 |-> "", rec3 |-> FALSE, bonds |-> bds]]

xyzfile(names, ff, scale) ==
    [fmt |-> "xyz",
     f |-> [atoms |-> names, shape |-> Ring, scale |-> scale, ff |-> ff]]

SpeciesFiles ==
    { zfile(<<"C", "C", "C">>, "a", FALSE, <<>>, <<>>, 1500),
      zfile(<<"C", "H">>, "a", FALSE, <<>>, <<>>, 1100),
      zfile(<<"C", "H">>, "b", FALSE, <<>>, <<>>, 1100),
      zfile(<<"C", "C", "H">>, "a", FALSE, <<>>, << <<1, 1, 2, 3>> >>, 1500),
      zfile(<<"C", "C", "H">>, "b", FALSE, <<>>, << <<1, 1, 2, 3>> >>, 1500),
      zfile(<<"C", "C", "C">>, "a", FALSE, << <<1, 3>> >>, <<>>, 1500),
      zfile(<<"H">>, "c", FALSE, <<>>, <<>>, 1500),
      mdlfile(<<"H", "C", "H">>, "a", << <<1, 2>>, <<2, 3>> >>, 1100),
      mdlfile(<<"C", "C", "C">>, "b", << <<1, 2>>, <<2, 3>> >>, 1500),
      xyzfile(<<"C2", "C">>, "a", 1500),
      xyzfile(<<"C", "H">>, "", 1100),
      xyzfile(<<"H">>, "d", 1100) }

(***************************************************************************)
(* mol.writexyz: the file <name>_pack.xyz, given by its two header lines.  *)
(***************************************************************************)
writexyz(ml) == [file |-> "_pack.xyz", natom |-> Len(ml.atom), ff |-> ml.ff]

(***************************************************************************)
(* main: the loop over the input files, each species written to its xyz    *)
(* file as soon as it is constructed, then system(spec, box, mix).         *)
(***************************************************************************)
AddSpecies ==
    /\ pc = "main"
    /\ Len(spec) < MaxSpec
    /\ \E file \in SpeciesFiles, fpup \in BOOLEAN :
         \E r \in {mol(file, connect, box, fpup)} :
           /\ out' = out \o r.out
           /\ IF r.pc = "done"
              THEN /\ spec' = Append(spec, [r.ml EXCEPT !.nmol = 1])
                   /\ written' = Append(written, writexyz(r.ml))
                   /\ pc' = "main"
              ELSE /\ spec' = spec
                   /\ written' = written
                   /\ pc' = r.pc
    /\ UNCHANGED <<connect, box, fmt, m, miss, sys, pair, nb, zm, zlines>>

System ==
    /\ pc = "main"
    /\ Len(spec) > 0
    /\ \E mix \in {"g", "a"} :
         \E r \in {system(spec, mix)} :
           /\ spec' = r.spec
           /\ sys' = r.sys
           /\ pc' = IF r.err THEN "fatal"
                    ELSE IF r.crash THEN "crash" ELSE "built"
    /\ UNCHANGED <<connect, box, fmt, m, out, miss, written, pair, nb, zm,
                   zlines>>

InitSys ==
    /\ pc = "main"
    /\ connect \in BOOLEAN
    /\ box \in BoxSet
    /\ fmt = ""
    /\ m = mol0
    /\ out = <<>>
    /\ miss = miss0
    /\ spec = <<>>
    /\ sys = sys0
    /\ written = <<>>
    /\ pair = pair0
    /\ nb = nb0
    /\ zm = z0
    /\ zlines = <<>>

NextSys ==
    \/ AddSpecies
    \/ System

SpecSys == InitSys /\ [][NextSys]_vars

(***************************************************************************)
(* Pairing runs: one call vdw(iat, jat, mix) on two entries of an atom     *)
(* type table.  The entries are force-field atom records with their type   *)
(* index; as in a table made by build_type_list, no two have the same      *)
(* name.                                                                   *)
(***************************************************************************)
VdwRecords ==
    << <<"A", "AT", 12011, -180, "lj", <<66, 3500>> >>,
       <<"B", "BT", 1008, 60, "lj", <<30, 2500>> >>,
       <<"D", "DT", 1008, 0, "lj", <<-30, 2500>> >>,
       <<"E", "ET", 1008, 0, "lj", <<30>> >>,
       <<"F", "FT", 1008, 0, "lj", <<40>> >>,
       <<"G", "GT", 1008, 0, "lj", <<10, 2000, 30>> >>,
       <<"J", "JT", 1008, 0, "lj", <<20, 3000, 40>> >>,
       <<"K", "KT", 1008, 0, "lj", <<>> >>,
       <<"P", "PT", 1008, 0, "buck", <<100, 3000, 20>> >>,
       <<"Q", "QT", 1008, 0, "buck", <<200, 2500, 30>> >> >>

VdwTable ==
    Map(LAMBDA k : [ffAtomRec(VdwRecords[k]) EXCEPT !.ityp = k - 1],
        Len(VdwRecords))

MixRules == {"g", "a"}

Vdw ==
    /\ pc = "vdw"
    /\ \E r \in {vdw(pair.iat, pair.jat, pair.mix)} :
         /\ nb' = r.v
         /\ pc' = IF r.err THEN "fatal"
                  ELSE IF r.crash THEN "crash" ELSE "paired"
    /\ UNCHANGED <<connect, box, fmt, m, out, miss, spec, sys, written,
                   pair, zm, zlines>>

InitVdw ==
    /\ pc = "vdw"
    /\ connect = FALSE
    /\ box = None
    /\ fmt = ""
    /\ m = mol0
    /\ out = <<>>
    /\ miss = miss0
    /\ spec = <<>>
    /\ sys = sys0
    /\ written = <<>>
    /\ pair \in {[iat |-> VdwTable[i], jat |-> VdwTable[j], mix |-> x] :
                    i \in DOMAIN VdwTable, j \in DOMAIN VdwTable,
                    x \in MixRules}
    /\ nb = nb0
    /\ zm = z0
    /\ zlines = <<>>

NextVdw == Vdw

SpecVdw == InitVdw /\ [][NextVdw]_vars

(***************************************************************************)
(* mol.anglesdiheds on its own: the bond lists it is handed are the bonds  *)
(* of a tree of atoms (every atom after the first bonded to an earlier     *)
(* one, as the records of a z-matrix give them), or those of a chain with  *)
(* one more bond that closes a ring, in every order of the list and with   *)
(* every orientation of each bond.                                         *)
(***************************************************************************)
Perms(k) ==
    {p \in [1..k -> 1..k] : \A a, b \in 1..k : a # b => p[a] # p[b]}

\* the bonds <<k, parent of k>> of a tree, atoms numbered from 0
TreeLists(n) ==
    {[k \in 1..(n - 1) |-> <<k, par[k]>>] :
       par \in {f \in [1..(n - 1) -> 0..(n - 1)] :
                  \A k \in 1..(n - 1) : f[k] < k}}

ChainList(n) == [k \in 1..(n - 1) |-> <<k - 1, k>>]

\* the chain and one bond between two atoms that are not neighbours in it
RingLists(n) ==
    {Append(ChainList(n), q) :
       q \in {r \in (0..(n - 1)) \X (0..(n - 1)) : r[2] >= r[1] + 2}}

Arranged(pairs, p, fwd) ==
    [x \in DOMAIN pairs |->
       IF fwd[x] THEN bond(pairs[p[x]][1], pairs[p[x]][2])
       ELSE bond(pairs[p[x]][2], pairs[p[x]][1])]

InitTopo ==
    /\ pc = "bonds"
    /\ \E n \in 1..MaxChain :
         \E pairs \in TreeLists(n) \cup RingLists(n) :
           \E p \in Perms(Len(pairs)), fwd \in [DOMAIN pairs -> BOOLEAN] :
             m = [mol0 EXCEPT
                    !.atom = [k \in 1..n |-> atom("C", 0)],
                    !.bond = Arranged(pairs, p, fwd),
                    !.topol = "file"]
    /\ connect = TRUE
    /\ box = None
    /\ fmt = ""
    /\ out = <<>>
    /\ miss = miss0
    /\ spec = <<>>
    /\ sys = sys0
    /\ written = <<>>
    /\ pair = pair0
    /\ nb = nb0
    /\ zm = z0
    /\ zlines = <<>>

Anglesdiheds ==
    /\ pc = "bonds"
    /\ m' = anglesdiheds(m)
    /\ pc' = "topology"
    /\ UNCHANGED <<connect, box, fmt, out, miss, spec, sys, written, pair,
                   nb, zm, zlines>>

NextTopo == Anglesdiheds

SpecTopo == InitTopo /\ [][NextTopo]_vars

(***************************************************************************)
(* zmat.__init__, the section after the records and the variables: the     *)
(* lines 'connect i j', 'improper i j k l', 'reconnect' and the name of    *)
(* the force-field file, in the order of the file.  A line is the list of  *)
(* its tokens; a comment line starts with the token "#", an empty line     *)
(* has no token.                                                           *)
(***************************************************************************)
int(tok) ==
    CASE tok = "1" -> 1
      [] tok = "2" -> 2
      [] tok = "3" -> 3
      [] tok = "4" -> 4

TailLines ==
    { <<"reconnect">>, <<"connect", "1", "3">>,
      <<"improper", "1", "2", "3", "4">>, <<"a">>, <<"b">>,
      <<"#", "comment">>, <<>> }

\* the files of at most MaxLines different lines
TailFiles ==
    UNION {{f \in [1..n -> TailLines] :
              \A a, b \in 1..n : a # b => f[a] # f[b]} : n \in 0..MaxLines}

zmatLine(z, tok) ==
    IF tok = <<>> \/ tok[1] = "#" THEN z
    ELSE Let(IF tok[1] = "reconnect" THEN [z EXCEPT !.reconnect = TRUE]
             ELSE z,
             LAMBDA z1 :
               IF tok[1] = "connect"
               THEN [z1 EXCEPT
                       !.connect = Append(@, <<int(tok[2]), int(tok[3])>>)]
               ELSE IF tok[1] = "improper"
               THEN [z1 EXCEPT
                       !.improper = Append(@, <<int(tok[2]), int(tok[3]),
                                                int(tok[4]), int(tok[5])>>)]
               ELSE [z1 EXCEPT !.ff = tok[1]])

InitTail ==
    /\ pc = "tail"
    /\ zlines \in TailFiles
    /\ zm = z0
    /\ connect = TRUE
    /\ box = None
    /\ fmt = "zmat"
    /\ m = mol0
    /\ out = <<>>
    /\ miss = miss0
    /\ spec = <<>>
    /\ sys = sys0
    /\ written = <<>>
    /\ pair = pair0
    /\ nb = nb0

\* one pass of 'while line:'
ZmatReadLine ==
    /\ pc = "tail"
    /\ zlines # <<>>
    /\ zm' = zmatLine(zm, Head(zlines))
    /\ zlines' = Tail(zlines)
    /\ UNCHANGED <<pc, connect, box, fmt, m, out, miss, spec, sys, written,
                   pair, nb>>

\* end of file; mol.fromzmat copies ff and reconnect from the zmat object
ZmatEnd ==
    /\ pc = "tail"
    /\ zlines = <<>>
    /\ m' = [m EXCEPT !.ff = zm.ff, !.reconnect = zm.reconnect]
    /\ pc' = "zmat"
    /\ UNCHANGED <<connect, box, fmt, out, miss, spec, sys, written, pair,
                   nb, zm, zlines>>

NextTail ==
    \/ ZmatReadLine
    \/ ZmatEnd

SpecTail == InitTail /\ [][NextTail]_vars

(***************************************************************************)
(* mol.zmat2cart computed on the coordinates.  Lengths in 1/1000 A, angles *)
(* named by their value in 1/10 degree.  The angles are those whose        *)
(* cosine and sine are multiples of 1/5 (0, 90, 180 degrees and the angles *)
(* of the 3-4-5 triangle, 36.87 and 53.13 degrees, with their              *)
(* supplements), so that every position is a whole number.                 *)
(*                                                                         *)
(* The floating-point results differ from these values by rounding errors  *)
(* of relative size 1e-16.  One of them decides an outcome: math.sin of    *)
(* the float nearest to pi or -pi is not 0, so a third atom placed with    *)
(* theta - ang = +-pi gets a y coordinate of about +-1e-16 instead of 0    *)
(* and is not exactly on the line of the first two atoms, whereas with     *)
(* theta - ang = 0 it is.  tilt3 is the sign of that residue.              *)
(***************************************************************************)
cos5(a) ==
    CASE a = 0 -> 5 [] a = 369 -> 4 [] a = 531 -> 3 [] a = 900 -> 0
      [] a = 1269 -> -3 [] a = 1431 -> -4 [] a = 1800 -> -5

sin5(a) ==
    CASE a = 0 -> 0 [] a = 369 -> 3 [] a = 531 -> 4 [] a = 900 -> 5
      [] a = 1269 -> 4 [] a = 1431 -> 3 [] a = 1800 -> 0

\* math.sqrt of a whole number, -1 when the root is not whole (the squared
\* lengths of the reduced directions of the model stay below 32 * 32)
isqrt(n) ==
    IF \E k \in 0..32 : k * k = n THEN CHOOSE k \in 0..32 : k * k = n
    ELSE -1

vector_add(v, w) == <<v[1] + w[1], v[2] + w[2], v[3] + w[3]>>

vector_sub(v, w) == <<v[1] - w[1], v[2] - w[2], v[3] - w[3]>>

vector_cross(v, w) ==
    <<v[2] * w[3] - v[3] * w[2], v[3] * w[1] - v[1] * w[3],
      v[1] * w[2] - v[2] * w[1]>>

Zero3 == <<0, 0, 0>>

\* vector.unit: dir / len is the unit vector; err when the division by
\* abs(self) raises ZeroDivisionError
vector_unit(v) ==
    Let(Reduced(v),
        LAMBDA d : [err |-> v = Zero3, dir |-> d,
                    len |-> isqrt(vector_mul(d, d))])

\* dir * num / (den * len), and whether the division leaves no remainder
along(u, num, den) ==
    [exact |-> /\ u.len > 0
               /\ \A c \in 1..3 : (u.dir[c] * num) % (den * u.len) = 0,
     v |-> IF u.len > 0
           THEN [c \in 1..3 |-> (u.dir[c] * num) \div (den * u.len)]
           ELSE Zero3]

xyz(at) == <<at.x, at.y, at.z>>

moved(at, v) == [at EXCEPT !.x = v[1], !.y = v[2], !.z = v[3]]

\* the first atom at the origin
zmatFirst(atoms) == [atoms EXCEPT ![1] = moved(@, Zero3)]

\* the second atom at distance r from the first along x
zmatSecond(atoms, z) == [atoms EXCEPT ![2] = moved(@, <<z.zatom[2].r, 0, 0>>)]

\* the third atom placed from atom ia instead of atom ir
zmatThirdFromIa(atoms, z) ==
    Let([rec |-> z.zatom[3],
         del |-> vector_sub(xyz(atoms[z.zatom[3].ia]),
                            xyz(atoms[z.zatom[3].ir]))],
        LAMBDA p :
          IF p.del[1] = 0 /\ p.del[2] = 0
          THEN [crash |-> TRUE, exact |-> TRUE, atom |-> atoms]
          ELSE Let([u |-> vector_unit(<<p.del[1], p.del[2], 0>>),
                    c |-> cos5(p.rec.a), s |-> sin5(p.rec.a)],
                   LAMBDA q :
                     Let(along([dir |-> <<q.u.dir[1] * q.c + q.u.dir[2] * q.s,
                                          q.u.dir[2] * q.c - q.u.dir[1] * q.s,
                                          0>>,
                                len |-> q.u.len], p.rec.r, 5),
                         LAMBDA w :
                           [crash |-> FALSE, exact |-> w.exact,
                            atom |-> [atoms EXCEPT
                                        ![3] = moved(@,
                                          vector_add(xyz(atoms[p.rec.ia]),
                                                     w.v))]])))

\* the third atom at distance r from atom ir, at the angle a from the
\* direction ir -> ia: (cos theta, sin theta) = del / |del|, and
\* cos(theta - a), sin(theta - a) by the addition theorems
zmatThird(atoms, z) ==
    Let([rec |-> z.zatom[3],
         del |-> vector_sub(xyz(atoms[z.zatom[3].ia]),
                            xyz(atoms[z.zatom[3].ir]))],
        LAMBDA p :
          IF p.del[1] = 0 /\ p.del[2] = 0
          THEN [crash |-> TRUE, exact |-> TRUE, atom |-> atoms]
          ELSE Let([u |-> vector_unit(<<p.del[1], p.del[2], 0>>),
                    c |-> cos5(p.rec.a), s |-> sin5(p.rec.a)],
                   LAMBDA q :
                     Let(along([dir |-> <<q.u.dir[1] * q.c + q.u.dir[2] * q.s,
                                          q.u.dir[2] * q.c - q.u.dir[1] * q.s,
                                          0>>,
                                len |-> q.u.len], p.rec.r, 5),
                         LAMBDA w :
                           [crash |-> FALSE, exact |-> w.exact,
                            atom |-> [atoms EXCEPT
                                        ![3] = moved(@,
                                          vector_add(xyz(atoms[p.rec.ir]),
                                                     w.v))]])))

\* the sign of the third atom's y where math.sin(theta - ang) is the
\* rounding residue of sin(+-pi): theta = pi and a = 0, or theta = 0 and
\* a = 180; 0 where y is the exact value
tilt3(z) ==
    IF Len(z.zatom) < 3 \/ z.zatom[3].ir = z.zatom[3].ia THEN 0
    ELSE IF z.zatom[3].ir = 2 /\ z.zatom[3].a = 0 THEN 1
    ELSE IF z.zatom[3].ir = 1 /\ z.zatom[3].a = 1800 THEN -1
    ELSE 0

\* a position with its rounding residue: e the value, t the direction of
\* the residue
posOf(atoms, z, k) ==
    [e |-> xyz(atoms[k]), t |-> IF k = 3 THEN <<0, tilt3(z), 0>> ELSE Zero3]

\* the leading part of w - v, and of the cross product of two differences
leadSub(v, w) ==
    IF w.e # v.e THEN vector_sub(w.e, v.e) ELSE vector_sub(w.t, v.t)

leadCross(vC, vD, vB) ==
    Let(vector_cross(vector_sub(vD.e, vC.e), vector_sub(vC.e, vB.e)),
        LAMBDA n :
          IF n # Zero3 THEN n
          ELSE vector_add(
                 vector_cross(vector_sub(vD.e, vC.e), vector_sub(vC.t, vB.t)),
                 vector_cross(vector_sub(vD.t, vC.t), vector_sub(vC.e, vB.e))))

\* whether B, C, D are on one line (or B on C) by their values while one
\* of them was placed by the loop: the residues of such an atom are not
\* followed, so whether the division raises is not known here
residueDecides(p, rec) ==
    /\ \/ p.vB.e = p.vC.e
       \/ vector_cross(vector_sub(p.vD.e, p.vC.e),
                       vector_sub(p.vC.e, p.vB.e)) = Zero3
    /\ rec.ir > 3 \/ rec.ia > 3 \/ rec.id > 3

\* one pass of the loop over the atoms after the third: A = vb + vm * ba
\* + vn * aA, with vb = vB + unit(vBC) * bB; exact is FALSE where the
\* arithmetic of the model does not give the outcome
zmatNth(atoms, z, i) ==
    Let([rec |-> z.zatom[i],
         vB |-> posOf(atoms, z, z.zatom[i].ir),
         vC |-> posOf(atoms, z, z.zatom[i].ia),
         vD |-> posOf(atoms, z, z.zatom[i].id)],
        LAMBDA p :
          Let([bc |-> vector_unit(leadSub(p.vB, p.vC)),
               vn |-> vector_unit(leadCross(p.vC, p.vD, p.vB))],
              LAMBDA f :
                IF residueDecides(p, p.rec)
                THEN [crash |-> FALSE, exact |-> FALSE, atom |-> atoms]
                ELSE IF f.bc.err \/ f.vn.err
                THEN [crash |-> TRUE, exact |-> TRUE, atom |-> atoms]
                ELSE Let([b |-> along(f.bc, p.rec.r * cos5(p.rec.a), 5),
                          m |-> along(vector_unit(vector_cross(f.bc.dir,
                                                               f.vn.dir)),
                                      p.rec.r * sin5(p.rec.a)
                                        * cos5(p.rec.d), 25),
                          n |-> along(f.vn,
                                      p.rec.r * sin5(p.rec.a)
                                        * sin5(p.rec.d), 25)],
                         LAMBDA s :
                           [crash |-> FALSE,
                            exact |-> s.b.exact /\ s.m.exact /\ s.n.exact,
                            atom |-> [atoms EXCEPT
                                        ![i] = moved(@,
                                          vector_add(vector_add(p.vB.e,
                                                                s.b.v),
                                                     vector_add(s.m.v,
                                                                s.n.v)))]])))

\* for i in range(3, natom), up to the pass that raises
zmatRest(atoms, z) ==
    Fold(LAMBDA st, i : IF st.crash \/ ~st.exact THEN st
                        ELSE Let(zmatNth(st.atom, z, i),
                                 LAMBDA r : [r EXCEPT
                                               !.exact = @ /\ st.exact]),
         [crash |-> FALSE, exact |-> TRUE, atom |-> atoms], 4, Len(atoms))

(***************************************************************************)
(* The z-matrices handed to zmat2cart: record 2 names a bond length,       *)
(* record 3 a bond length (the same or another), an angle and two of the   *)
(* first two atoms, every later record three earlier atoms, an angle and a *)
(* dihedral of 0, 90 or 180 degrees.                                       *)
(***************************************************************************)
zrec(name, ir, r, ia, a, id, d) ==
    [name |-> name, ir |-> ir, r |-> r, ia |-> ia, a |-> a, id |-> id,
     d |-> d]

Lengths == {1000, 1500}

Angles == {0, 369, 531, 900, 1269, 1431, 1800}

FlatAngles == {0, 900, 1800}

\* the references <<ir, ia, id>> of the record after the records zz, the
\* fourth or a later one: the previous atom with the two atoms that one
\* refers to, the first three atoms, and the previous atom twice
RefSets(zz) ==
    {<<Len(zz), zz[Len(zz)].ir, zz[Len(zz)].ia>>, <<1, 2, 3>>,
     <<Len(zz), Len(zz), zz[Len(zz)].ir>>}

\* the records that may follow the records zz; nothing is placed after a
\* third record that raises, so one record stands for all
RecsAfter(zz) ==
    IF Len(zz) = 0 THEN {zrec("C", 0, 0, 0, 0, 0, 0)}
    ELSE IF Len(zz) = 1 THEN {zrec("C", 1, 1000, 0, 0, 0, 0)}
    ELSE IF Len(zz) = 2
    THEN {zrec("C", ir, r, ia, a, 0, 0) :
            ir \in 1..2, ia \in 1..2, r \in Lengths, a \in Angles} \
         {zrec("C", 2, r, 2, a, 0, 0) : r \in Lengths, a \in Angles}
    ELSE IF zz[3].ir = zz[3].ia THEN {zrec("C", 1, 1000, 2, 0, 3, 0)}
    ELSE {zrec("C", ref[1], 1000, ref[2], a, ref[3], d) :
            ref \in RefSets(zz), a \in FlatAngles, d \in FlatAngles}

RECURSIVE ZmatOf(_)
ZmatOf(n) ==
    IF n = 0 THEN {<<>>}
    ELSE UNION {{Append(zz, rc) : rc \in RecsAfter(zz)} :
                  zz \in ZmatOf(n - 1)}

zeroAtoms(zz) == Map(LAMBDA k : atom(zz[k].name, 0), Len(zz))

ZmatFiles == UNION {ZmatOf(n) : n \in 1..MaxRecs}

InitCart ==
    /\ pc = "first"
    /\ \E zz \in ZmatFiles :
         /\ zm = [z0 EXCEPT !.zatom = zz]
         /\ m = [mol0 EXCEPT !.atom = zeroAtoms(zz)]
    /\ connect = TRUE
    /\ box = None
    /\ fmt = "zmat"
    /\ out = <<>>
    /\ miss = miss0
    /\ spec = <<>>
    /\ sys = sys0
    /\ written = <<>>
    /\ pair = pair0
    /\ nb = nb0
    /\ zlines = <<>>

CartFirst ==
    /\ pc = "first"
    /\ m' = [m EXCEPT !.atom = zmatFirst(m.atom)]
    /\ pc' = IF Len(m.atom) = 1 THEN "placed" ELSE "second"
    /\ UNCHANGED <<connect, box, fmt, out, miss, spec, sys, written, pair,
                   nb, zm, zlines>>

CartSecond ==
    /\ pc = "second"
    /\ m' = [m EXCEPT !.atom = zmatSecond(m.atom, zm)]
    /\ pc' = IF Len(m.atom) = 2 THEN "placed" ELSE "third"
    /\ UNCHANGED <<connect, box, fmt, out, miss, spec, sys, written, pair,
                   nb, zm, zlines>>

CartThird ==
    /\ pc = "third"
    /\ \E r \in {zmatThird(m.atom, zm)} :
         /\ r.exact
         /\ m' = [m EXCEPT !.atom = r.atom]
         /\ pc' = IF r.crash THEN "crash"
                  ELSE IF Len(m.atom) = 3 THEN "placed" ELSE "nth"
    /\ UNCHANGED <<connect, box, fmt, out, miss, spec, sys, written, pair,
                   nb, zm, zlines>>

CartRest ==
    /\ pc = "nth"
    /\ \E r \in {zmatRest(m.atom, zm)} :
         /\ r.exact
         /\ m' = [m EXCEPT !.atom = r.atom]
         /\ pc' = IF r.crash THEN "crash" ELSE "placed"
    /\ UNCHANGED <<connect, box, fmt, out, miss, spec, sys, written, pair,
                   nb, zm, zlines>>

NextCart ==
    \/ CartFirst
    \/ CartSecond
    \/ CartThird
    \/ CartRest

SpecCart == InitCart /\ [][NextCart]_vars

(***************************************************************************)
(* Properties.  Helpers: the names under which a record matches, the       *)
(* records of a list matching a name, and the positions of a run.          *)
(***************************************************************************)
bondNames(r) == {r.iatp \o "-" \o r.jatp, r.jatp \o "-" \o r.iatp}

angleNames(r) ==
    {r.iatp \o "-" \o r.jatp \o "-" \o r.katp,
     r.katp \o "-" \o r.jatp \o "-" \o r.iatp}

dihedNames(r) ==
    {r.iatp \o "-" \o r.jatp \o "-" \o r.katp \o "-" \o r.latp,
     r.latp \o "-" \o r.katp \o "-" \o r.jatp \o "-" \o r.iatp}

Matching(recs, name, Names(_)) ==
    {k \in DOMAIN recs : name \in Names(recs[k])}

AtomMatching(recs, name) == {k \in DOMAIN recs : recs[k].name = name}

First(S) == CHOOSE k \in S : \A h \in S : k <= h

Last(S) == CHOOSE k \in S : \A h \in S : k >= h

NoDup(s) == \A i, j \in DOMAIN s : i # j => s[i] # s[j]

AfterAtoms == {"bonds", "angles", "diheds", "dimprs", "report", "done"}

AfterBonds == {"angles", "diheds", "dimprs", "report", "done"}

AfterAngles == {"diheds", "dimprs", "report", "done"}

AfterDiheds == {"dimprs", "report", "done"}

AfterDimprs == {"report", "done"}

BondsMatched ==
    \A k \in DOMAIN m.bond :
      Matching(forcefield(m.ff).bond, m.bond[k].name, bondNames) # {}

AnglesMatched ==
    \A k \in DOMAIN m.angle :
      Matching(forcefield(m.ff).angle, m.angle[k].name, angleNames) # {}

DihedsMatched ==
    \A k \in DOMAIN m.dihed :
      Matching(forcefield(m.ff).dihed, m.dihed[k].name, dihedNames) # {}

DimprsMatched ==
    \A k \in DOMAIN m.dimpr :
      Matching(forcefield(m.ff).dimpr, m.dimpr[k].name, dihedNames) # {}

\* a bond of the list the bond loop has named and found no record for
UnmatchedBond ==
    \E k \in DOMAIN m.bond :
      /\ m.bond[k].hasname
      /\ Matching(forcefield(m.ff).bond, m.bond[k].name, bondNames) = {}

\* C1 as stated: a bond without record is removed like the other terms and
\* is no fatal error, so that no bond the loop has named is left without
\* record and the run never ends in the bond loop's exit
C1_Original ==
    m.ff # "" => ~UnmatchedBond

\* C1 (amended): after their loops the angle, dihedral and improper lists
\* hold matched terms only, and no run that has found such a term missing
\* ends in a fatal error; a bond without record stays in the list and the
\* run ends in a fatal error after the bond loop; when setff returns, no
\* list holds an unmatched term.
C1_UnmatchedTerms ==
    m.ff # "" =>
      /\ pc \in AfterBonds => BondsMatched
      /\ pc \in AfterAngles => AnglesMatched
      /\ pc \in AfterDiheds => DihedsMatched
      /\ pc \in AfterDimprs => DimprsMatched
      /\ pc = "fatal" => miss = miss0
      /\ UnmatchedBond => pc = "fatal"
      /\ (pc = "fatal" /\ \E k \in DOMAIN m.bond : m.bond[k].hasname)
           => UnmatchedBond

\* a run that has removed an unmatched angle and returned with bonds left
C1_Witness ==
    /\ pc = "done"
    /\ Len(miss.an) > 0
    /\ Len(m.bond) > 0

\* C2 as stated: an atom carries the type, potential and parameters of the
\* FIRST record of its name, a bond those of the FIRST record matching its
\* atoms' types in either order.
C2_FirstMatch ==
    (m.ff # "" /\ pc \in AfterAtoms) =>
      /\ \A k \in DOMAIN m.atom :
           LET recs == forcefield(m.ff).atom
               match == AtomMatching(recs, m.atom[k].name)
           IN  match # {} =>
                 /\ m.atom[k].type = recs[First(match)].type
                 /\ m.atom[k].pot = recs[First(match)].pot
                 /\ m.atom[k].par = recs[First(match)].par
      /\ pc \in AfterBonds =>
           \A k \in DOMAIN m.bond :
             LET recs == forcefield(m.ff).bond
                 match == Matching(recs, bondNamed(m, m.bond[k]).name,
                                   bondNames)
             IN  match # {} =>
                   /\ m.bond[k].pot = recs[First(match)].pot
                   /\ m.bond[k].par = recs[First(match)].par

UnmatchedAtom ==
    \E k \in DOMAIN m.atom :
      AtomMatching(forcefield(m.ff).atom, m.atom[k].name) = {}

Untouched(terms) ==
    \A k \in DOMAIN terms : ~terms[k].hasname /\ terms[k].par = <<>>

\* C3: once setff has gone through the atoms of a molecule one of which has
\* no atom record, the run has ended in a fatal error and no bond, angle,
\* dihedral or improper of the molecule has been named or given parameters.
C3_AtomFatal ==
    (m.ff # "" /\ pc \notin {"start", "setff"} /\ UnmatchedAtom) =>
      /\ pc = "fatal"
      /\ Untouched(m.bond)
      /\ Untouched(m.angle)
      /\ Untouched(m.dihed)
      /\ Untouched(m.dimpr)
      /\ miss = miss0

\* the exit of setff's atom loop, for a molecule with bonds, angles and
\* impropers from its file
C3_Witness ==
    /\ pc = "fatal"
    /\ m.ff # ""
    /\ UnmatchedAtom
    /\ \E k \in DOMAIN m.atom : m.atom[k].hastype /\ m.atom[k].par # <<>>
    /\ Len(m.bond) > 0
    /\ Len(m.angle) > 0
    /\ Len(m.dimpr) > 0

\* the square of the distance of the two atoms of a bond
BondLength2(bd) == dist2atoms(At(m, bd.i), At(m, bd.j), box)

\* C4: the bond loop keeps every bond; a bond with matching records gets
\* the parameters of a record, and when its length fails that record's
\* equilibrium value the warning is printed; the loop ends in a fatal error
\* only when a bond has no record, which a failed validation never causes.
C4_BondFlagged ==
    [][pc = "bonds" =>
         LET recs == forcefield(m.ff).bond
             match(k) == Matching(recs, bondNamed(m, m.bond[k]).name,
                                  bondNames)
         IN  /\ Len(m'.bond) = Len(m.bond)
             /\ \A k \in DOMAIN m.bond :
                  /\ m'.bond[k].i = m.bond[k].i
                  /\ m'.bond[k].j = m.bond[k].j
                  /\ match(k) # {} =>
                       /\ m'.bond[k].pot = recs[Last(match(k))].pot
                       /\ m'.bond[k].par = recs[Last(match(k))].par
                       /\ ~bond_checkval(recs[Last(match(k))],
                                         BondLength2(m.bond[k]))
                            => Msg("warning: bond", m'.bond[k].name)
                                 \in Range(out')
             /\ pc' = IF \E k \in DOMAIN m.bond : match(k) = {}
                      THEN "fatal" ELSE "angles"]_vars

\* the example of the claim: a bond with the parameters of a record of
\* equilibrium length 1.529 and a length of 1.80 in a molecule setff has
\* returned
C4_Witness ==
    /\ pc = "done"
    /\ \E k \in DOMAIN m.bond :
         /\ m.bond[k].par # <<>>
         /\ m.bond[k].par[1] = 1529
         /\ BondLength2(m.bond[k]) = 1800 * 1800

\* the angle of the three atoms of an angle term
AngleValue(an) ==
    angle3atoms(At(m, an.i), At(m, an.j), At(m, an.k), box, FALSE).th

\* C5 as stated: the angle loop keeps an angle exactly when it matches a
\* record and its value is within the tolerance of the equilibrium value of
\* the record whose parameters it is assigned, and it removes no other term.
C5_Original ==
    [][(pc = "angles" /\ pc' = "diheds") =>
         LET recs == forcefield(m.ff).angle
             match(k) == Matching(recs, angleNamed(m, m.angle[k]).name,
                                  angleNames)
             kept(k) == \E h \in DOMAIN m'.angle :
                          /\ m'.angle[h].i = m.angle[k].i
                          /\ m'.angle[h].j = m.angle[k].j
                          /\ m'.angle[h].k = m.angle[k].k
         IN  /\ \A k \in DOMAIN m.angle :
                  kept(k) <=> /\ match(k) # {}
                              /\ angle_checkval(recs[Last(match(k))],
                                                AngleValue(m.angle[k]))
             /\ m'.bond = m.bond
             /\ m'.dihed = m.dihed
             /\ m'.dimpr = m.dimpr]_vars

Header == Msg("warning: missing force field parameters", "")

Reports == {k \in DOMAIN out : out[k] = Header}

\* the names the report lists under one heading, in order
Listed(kind) ==
    LET lines == SelectSeq(out, LAMBDA e : e.kind = kind)
    IN  [k \in DOMAIN lines |-> lines[k].name]

\* the names of the terms of a list a loop finds no record for
Missing(terms, Named(_), recs, Names(_)) ==
    {Named(terms[k]).name :
       k \in {h \in DOMAIN terms :
                Matching(recs, Named(terms[h]).name, Names) = {}}}

ReportedOnce ==
    /\ Cardinality(Reports) <= 1
    /\ \A k \in DOMAIN out :
         out[k].kind \in {"warning: missing force field parameters",
                          "angle type", "dihedral type", "improper type"}
           => /\ pc \in {"done", "again"}
              /\ \E h \in Reports : h <= k
    /\ NoDup(miss.an) /\ NoDup(miss.dh) /\ NoDup(miss.di)
    /\ (pc = "done" /\ m.ff # "") =>
         /\ Reports # {} <=> miss # miss0
         /\ Listed("angle type") = miss.an
         /\ Listed("dihedral type") = miss.dh
         /\ Listed("improper type") = miss.di

MissingCollected ==
    /\ (pc = "angles" /\ pc' = "diheds") =>
         Range(miss'.an) = Missing(m.angle, LAMBDA t : angleNamed(m, t),
                                   forcefield(m.ff).angle, angleNames)
    /\ (pc = "diheds" /\ pc' = "dimprs") =>
         Range(miss'.dh) = Missing(m.dihed, LAMBDA t : dihedNamed(m, t),
                                   forcefield(m.ff).dihed, dihedNames)
    /\ (pc = "dimprs" /\ pc' = "report") =>
         Range(miss'.di) = Missing(m.dimpr, LAMBDA t : dihedNamed(m, t),
                                   forcefield(m.ff).dimpr, dihedNames)
    /\ pc = "report" => (pc' = "done" /\ miss' = miss)

\* C6: the report is printed at most once and only by the last step of
\* setff, after the angle, dihedral and improper loops; each loop collects
\* the names of its terms without record, each name once, and the report
\* lists exactly the collected names, each once.
C6_ReportOnce == []ReportedOnce /\ [][MissingCollected]_vars

\* a report after terms of all three categories were missing, two
\* dihedrals of them under the same name
C6_Witness ==
    /\ pc = "done"
    /\ Reports # {}
    /\ Len(miss.an) > 0
    /\ Len(miss.dh) > 0
    /\ Len(miss.di) > 0

\* C7: a molecule without force field has, after construction, atoms of
\* potential lj, charge 0 and parameters [0, 0] and no bonded term at all.
C7_NoForceField ==
    (pc = "done" /\ m.ff = "") =>
      /\ \A k \in DOMAIN m.atom :
           /\ m.atom[k].pot = "lj"
           /\ m.atom[k].q = 0
           /\ m.atom[k].par = <<0, 0>>
      /\ m.bond = <<>>
      /\ m.angle = <<>>
      /\ m.dihed = <<>>
      /\ m.dimpr = <<>>

\* such a molecule from a z-matrix with several atoms, connect set
C7_Witness ==
    /\ pc = "done"
    /\ m.ff = ""
    /\ connect
    /\ fmt = "zmat"
    /\ Len(m.atom) > 1

(***************************************************************************)
(* Properties of the system runs.                                          *)
(***************************************************************************)
Categories == {"atom", "bond", "angle", "dihed", "dimpr"}

Table(cat) ==
    CASE cat = "atom" -> sys.attype
      [] cat = "bond" -> sys.bdtype
      [] cat = "angle" -> sys.antype
      [] cat = "dihed" -> sys.dhtype
      [] cat = "dimpr" -> sys.ditype

\* the name of a table entry with its atom types in reverse order
Reversed(cat, t) ==
    CASE cat = "atom" -> t.name
      [] cat = "bond" -> t.jatp \o "-" \o t.iatp
      [] cat = "angle" -> t.katp \o "-" \o t.jatp \o "-" \o t.iatp
      [] OTHER -> t.latp \o "-" \o t.katp \o "-" \o t.jatp \o "-" \o t.iatp

\* C8 as stated: no type table holds two entries of the same name read
\* forwards or backwards.
C8_Undirected ==
    pc = "built" =>
      \A cat \in Categories :
        \A i, j \in DOMAIN Table(cat) :
          i # j => /\ Table(cat)[i].name # Table(cat)[j].name
                   /\ Table(cat)[i].name # Reversed(cat, Table(cat)[j])

\* C9: every atom and bonded term of every species carries an index into
\* its category's table, the entry there has the term's name, and the
\* entry at position k carries index k.
C9_TypeIndex ==
    pc = "built" =>
      \A cat \in Categories :
        /\ \A s \in DOMAIN spec :
             \A k \in DOMAIN spec[s][cat] :
               /\ spec[s][cat][k].ityp >= 0
               /\ spec[s][cat][k].ityp < Len(Table(cat))
               /\ Table(cat)[spec[s][cat][k].ityp + 1].name
                    = spec[s][cat][k].name
        /\ \A k \in DOMAIN Table(cat) : Table(cat)[k].ityp = k - 1

\* a system of two species with several atom, bond and improper types and
\* a type shared by both species
C9_Witness ==
    /\ pc = "built"
    /\ Len(spec) = 2
    /\ Len(sys.attype) > 1
    /\ Len(sys.bdtype) > 1
    /\ Len(sys.ditype) > 1
    /\ \E k \in DOMAIN spec[2].bond : spec[2].bond[k].ityp = 0

\* C10 as stated: two atoms of the same force-field type label have the
\* same atom type index.
C10_SameLabel ==
    pc = "built" =>
      \A s, t \in DOMAIN spec :
        \A k \in DOMAIN spec[s].atom, h \in DOMAIN spec[t].atom :
          spec[s].atom[k].type = spec[t].atom[h].type
            => spec[s].atom[k].ityp = spec[t].atom[h].ityp

\* C10 (amended): two atoms of the same atom name, in one species or in
\* two, have the same atom type index.
C10_SameName ==
    pc = "built" =>
      \A s, t \in DOMAIN spec :
        \A k \in DOMAIN spec[s].atom, h \in DOMAIN spec[t].atom :
          spec[s].atom[k].name = spec[t].atom[h].name
            => spec[s].atom[k].ityp = spec[t].atom[h].ityp

\* atoms of one name in two species, and two atoms of one label and
\* different names
C10_Witness ==
    /\ pc = "built"
    /\ Len(spec) = 2
    /\ \E k \in DOMAIN spec[1].atom, h \in DOMAIN spec[2].atom :
         /\ spec[1].atom[k].name = spec[2].atom[h].name
         /\ spec[1].atom[k].ityp > 0
    /\ \E k, h \in DOMAIN spec[2].atom :
         /\ spec[2].atom[k].type = spec[2].atom[h].type
         /\ spec[2].atom[k].name # spec[2].atom[h].name

(***************************************************************************)
(* C11: when system construction completes with n atom types, the vdw list *)
(* has n*(n+1)/2 records, exactly one for each unordered pair of atom      *)
(* types, an atom type with itself included.                               *)
(***************************************************************************)
PairRecords(a, b) ==
    {k \in DOMAIN sys.vdw :
        {sys.vdw[k].i, sys.vdw[k].j}
          = {sys.attype[a].name, sys.attype[b].name}}

C11_PairCount ==
    pc = "built" =>
      LET n == Len(sys.attype)
      IN  /\ 2 * Len(sys.vdw) = n * (n + 1)
          /\ \A a \in 1..n : \A b \in a..n :
                Cardinality(PairRecords(a, b)) = 1

C11_Witness ==
    /\ pc = "built"
    /\ Len(sys.attype) = 3
    /\ Len(sys.vdw) = 6

(***************************************************************************)
(* C12: a vdw record for two atom types of the same name carries that      *)
(* type's own parameter list; for different names its first parameter is   *)
(* the geometric mean (geometric rule) or the arithmetic mean (arithmetic  *)
(* rule) of the two first parameters and its second parameter is the       *)
(* geometric mean of the two second parameters.                            *)
(***************************************************************************)
C12_Mixed ==
    pc = "paired" =>
      /\ nb.haspar
      /\ IF pair.iat.name = pair.jat.name
         THEN nb.par = pair.iat.par
         ELSE /\ nb.par[1]
                   = IF pair.mix = "g"
                     THEN mixed("sqrt", pair.iat.par[1] * pair.jat.par[1])
                     ELSE mixed("half", pair.iat.par[1] + pair.jat.par[1])
              /\ nb.par[2]
                   = mixed("sqrt", pair.iat.par[2] * pair.jat.par[2])

(***************************************************************************)
(* C13: for two atom types A and B that can be paired, the records         *)
(* vdw(A,B) and vdw(B,A) have the same potential kind and the same         *)
(* parameter list, under either mixing rule.                               *)
(***************************************************************************)
C13_Symmetric ==
    pc = "paired" =>
      LET r == vdw(pair.jat, pair.iat, pair.mix)
      IN  /\ ~r.err /\ ~r.crash
          /\ r.v.pot = nb.pot
          /\ r.v.haspar = nb.haspar
          /\ r.v.par = nb.par

C13_Witness ==
    /\ pc = "paired"
    /\ pair.iat.name # pair.jat.name
    /\ pair.iat.par[1] # pair.jat.par[1]
    /\ pair.iat.par[2] # pair.jat.par[2]
    /\ pair.mix = "a"
    /\ nb.haspar

(***************************************************************************)
(* C14: building a vdw record for two atom types whose potential kinds     *)
(* differ, or whose parameter lists differ in length, ends in a fatal      *)
(* error without a record; every other input gives a record.               *)
(***************************************************************************)
C14_FatalOnly ==
    pc # "vdw" =>
      IF \/ pair.iat.pot # pair.jat.pot
         \/ Len(pair.iat.par) # Len(pair.jat.par)
      THEN pc = "fatal" /\ ~nb.haspot
      ELSE pc = "paired" /\ nb.haspot

(***************************************************************************)
(* C15: in a run that ends in a fatal configuration error, no output file  *)
(* has been written before the error.                                      *)
(***************************************************************************)
C15_NoPartialOutput == pc = "fatal" => written = <<>>

(***************************************************************************)
(* C16: a second mol.setff on a molecule the first one has matched returns *)
(* and leaves the molecule as it was: the same atoms and terms with the    *)
(* same type names, potential kinds, parameter lists and type indices.     *)
(***************************************************************************)
C16_Idempotent == [][pc = "done" => (pc' = "again" /\ m' = m)]_vars

\* a second run on a molecule that kept bonds and angles and lost a term
C16_Witness ==
    /\ pc = "again"
    /\ m.ff # ""
    /\ Len(m.bond) > 0
    /\ Len(m.angle) > 0
    /\ miss # miss0

(***************************************************************************)
(* C17: every atom index stored in a bond, angle, dihedral or improper of  *)
(* the molecule is an index of its atom list, 0 <= index < number of       *)
(* atoms; a declared bond or improper naming another atom is not stored.   *)
(***************************************************************************)
InRange(i) == 0 <= i /\ i < Len(m.atom)

C17_IndicesValid ==
    /\ \A k \in DOMAIN m.bond : InRange(m.bond[k].i) /\ InRange(m.bond[k].j)
    /\ \A k \in DOMAIN m.angle :
         InRange(m.angle[k].i) /\ InRange(m.angle[k].j) /\ InRange(m.angle[k].k)
    /\ \A k \in DOMAIN m.dihed :
         /\ InRange(m.dihed[k].i) /\ InRange(m.dihed[k].j)
         /\ InRange(m.dihed[k].k) /\ InRange(m.dihed[k].l)
    /\ \A k \in DOMAIN m.dimpr :
         /\ InRange(m.dimpr[k].i) /\ InRange(m.dimpr[k].j)
         /\ InRange(m.dimpr[k].k) /\ InRange(m.dimpr[k].l)

(***************************************************************************)
(* C18 as stated: every bond of the molecule, declared or inferred, has    *)
(* its two atom indices stored with i < j.                                 *)
(***************************************************************************)
C18_Original == \A k \in DOMAIN m.bond : m.bond[k].i < m.bond[k].j

(***************************************************************************)
(* C18: every bond inferred from distances is stored with i < j; the bond  *)
(* of a z-matrix record is stored with the record's own atom first, and    *)
(* the reference atom second.                                              *)
(***************************************************************************)
C18_InferredOrdered ==
    /\ m.topol \in {"guess", "pbc"} =>
         \A k \in DOMAIN m.bond : m.bond[k].i < m.bond[k].j
    /\ (fmt = "zmat" /\ m.topol = "file") =>
         /\ Len(m.bond) >= Len(m.atom) - 1
         /\ \A k \in 1..(Len(m.atom) - 1) : m.bond[k].i = k

\* inferred bonds between three atoms
C18_Witness ==
    /\ m.topol \in {"guess", "pbc"}
    /\ Len(m.bond) >= 2

(***************************************************************************)
(* C19: every angle mol.anglesdiheds emits has two different end atoms     *)
(* (i # k) and every dihedral has two different end atoms (i # l), also    *)
(* for a 3-membered ring and for a bond list naming an atom pair twice.    *)
(***************************************************************************)
C19_EndsDiffer ==
    /\ \A k \in DOMAIN m.angle : m.angle[k].i # m.angle[k].k
    /\ \A k \in DOMAIN m.dihed : m.dihed[k].i # m.dihed[k].l

(***************************************************************************)
(* C20 as stated: after mol.setff returns, every bond and every angle of   *)
(* the molecule carries a parameter set and a recorded equilibrium value.  *)
(***************************************************************************)
C20_Original ==
    pc = "done" =>
      /\ \A k \in DOMAIN m.bond : m.bond[k].hasname /\ m.bond[k].haseq
      /\ \A k \in DOMAIN m.angle : m.angle[k].hasname /\ m.angle[k].haseq

(***************************************************************************)
(* C20: after mol.setff returns, every bond and every angle of the         *)
(* molecule carries the potential kind and parameter list of a force-field *)
(* record matching its name; the equilibrium value is recorded on the      *)
(* force-field records, all of them, and not on the molecule's terms.      *)
(***************************************************************************)
C20_Resolved ==
    (pc = "done" /\ m.ff # "") =>
      LET ff == forcefield(m.ff)
      IN  /\ \A k \in DOMAIN m.bond :
                /\ m.bond[k].hasname /\ ~m.bond[k].haseq
                /\ \E r \in Matching(ff.bond, m.bond[k].name, bondNames) :
                      /\ m.bond[k].pot = ff.bond[r].pot
                      /\ m.bond[k].par = ff.bond[r].par
          /\ \A k \in DOMAIN m.angle :
                /\ m.angle[k].hasname /\ ~m.angle[k].haseq
                /\ \E r \in Matching(ff.angle, m.angle[k].name, angleNames) :
                      /\ m.angle[k].pot = ff.angle[r].pot
                      /\ m.angle[k].par = ff.angle[r].par
          /\ \A r \in DOMAIN ff.bond :
                ff.bond[r].haseq /\ ff.bond[r].eqval = ff.bond[r].par[1]
          /\ \A r \in DOMAIN ff.angle :
                ff.angle[r].haseq /\ ff.angle[r].eqval = ff.angle[r].par[1]

C20_Witness ==
    /\ pc = "done"
    /\ m.ff # ""
    /\ Len(m.bond) > 0
    /\ Len(m.angle) > 0

(***************************************************************************)
(* C27: in a system that has been built, every atom and every bonded term  *)
(* of every species has the potential kind and the parameter list of the   *)
(* type-table entry at its type index.                                     *)
(***************************************************************************)
TableOf(cat) ==
    CASE cat = "atom" -> sys.attype
      [] cat = "bond" -> sys.bdtype
      [] cat = "angle" -> sys.antype
      [] cat = "dihed" -> sys.dhtype
      [] cat = "dimpr" -> sys.ditype

SameAsEntry(t, termtype) ==
    /\ t.ityp \in 0..(Len(termtype) - 1)
    /\ termtype[t.ityp + 1].pot = t.pot
    /\ termtype[t.ityp + 1].par = t.par

C27_TableParams ==
    pc = "built" =>
      \A s \in DOMAIN spec :
        \A cat \in {"atom", "bond", "angle", "dihed", "dimpr"} :
          \A k \in DOMAIN spec[s][cat] :
            SameAsEntry(spec[s][cat][k], TableOf(cat))

(***************************************************************************)
(* C29: every vdw record of a system that has been built carries a         *)
(* parameter list, whatever the potential kind of its two atom types.      *)
(***************************************************************************)
C29_VdwHasPar ==
    pc = "built" => \A k \in DOMAIN sys.vdw : sys.vdw[k].haspar

(***************************************************************************)
(* Inferred topology: the box mol.connectivity was called with, the pairs  *)
(* of atoms it visits and the records it compares a pair with.             *)
(***************************************************************************)
Inferred == m.topol \in {"guess", "pbc"}

BoxUsed == IF fmt = "xyz" THEN box ELSE None

PairsOf(n) == {p \in (0..(n - 1)) \X (0..(n - 1)) : p[1] < p[2]}

BondsOn(i, j) == {k \in DOMAIN m.bond : m.bond[k].i = i /\ m.bond[k].j = j}

NamesMatch(rec, ti, tj) ==
    \/ rec.iatp = ti /\ rec.jatp = tj
    \/ rec.iatp = tj /\ rec.jatp = ti

\* |sqrt(r2) - eq| < tol, resp. <= tol, for eq >= tol
DeviationBelow(eq, r2, tol) ==
    (eq - tol) * (eq - tol) < r2 /\ r2 < (eq + tol) * (eq + tol)

DeviationAtMost(eq, r2, tol) ==
    (eq - tol) * (eq - tol) <= r2 /\ r2 <= (eq + tol) * (eq + tol)

\* the records of the force field that match the pair's two type labels
RecordsFor(i, j) ==
    {k \in DOMAIN forcefield(m.ff).bond :
       NamesMatch(forcefield(m.ff).bond[k],
                  m.atom[i + 1].type, m.atom[j + 1].type)}

Dist2(i, j) == dist2atoms(m.atom[i + 1], m.atom[j + 1], BoxUsed)

\* C22 as stated: a deviation of exactly 0.25 yields a bond
C22_Original ==
    Inferred =>
      \A p \in PairsOf(Len(m.atom)) :
        BondsOn(p[1], p[2]) # {} <=>
          \E k \in RecordsFor(p[1], p[2]) :
            DeviationAtMost(forcefield(m.ff).bond[k].eqval,
                            Dist2(p[1], p[2]), BondTol)

(***************************************************************************)
(* C22: in inferred mode the bond (i, j), i < j, is in the result if and   *)
(* only if some bond record of the force field matches the two type labels *)
(* in either order and the distance of the pair deviates from the record's *)
(* equilibrium length by less than 0.25; a deviation of 0.25 or more never *)
(* yields a bond.                                                          *)
(***************************************************************************)
C22_Strict ==
    Inferred =>
      \A p \in PairsOf(Len(m.atom)) :
        BondsOn(p[1], p[2]) # {} <=>
          \E k \in RecordsFor(p[1], p[2]) :
            DeviationBelow(forcefield(m.ff).bond[k].eqval,
                           Dist2(p[1], p[2]), BondTol)

\* a pair exactly 0.25 off the only record that could accept it, next to
\* a pair that is bonded
C22_Witness ==
    /\ Inferred
    /\ \E p \in PairsOf(Len(m.atom)) :
         /\ BondsOn(p[1], p[2]) = {}
         /\ \E k \in RecordsFor(p[1], p[2]) :
              DeviationAtMost(forcefield(m.ff).bond[k].eqval,
                              Dist2(p[1], p[2]), BondTol)
    /\ \E p \in PairsOf(Len(m.atom)) : BondsOn(p[1], p[2]) # {}

(***************************************************************************)
(* C28: mol.connectivity adds at most one bond for an unordered pair of    *)
(* atoms, also when several bond records of the force field match it.      *)
(***************************************************************************)
C28_OneBondPerPair ==
    Inferred =>
      \A p \in PairsOf(Len(m.atom)) :
        Cardinality(BondsOn(p[1], p[2]) \cup BondsOn(p[2], p[1])) <= 1

(***************************************************************************)
(* C25: whether mol.connectivity accepts a pair of atoms does not depend   *)
(* on which of the two it visits first: with the two atoms exchanged in    *)
(* the atom list the pair is accepted by the same number of records, with  *)
(* and without periodic boundary conditions.                               *)
(***************************************************************************)
Exchanged(atoms, i, j) ==
    [k \in DOMAIN atoms |->
       IF k = i + 1 THEN atoms[j + 1]
       ELSE IF k = j + 1 THEN atoms[i + 1] ELSE atoms[k]]

\* boxes without and with periodic directions; in the last one the atoms
\* of the model are nearest to each other across the boundary
PairBoxes ==
    {None, BoxUsed, cell(3600, 9000, 9000, {"x"}),
     cell(2600, 2600, 9000, {"x", "y"})}

Accepted(atoms, i, j, bx) ==
    Len(connPairBonds(atoms, forcefield(m.ff).bond, i, j, bx))

C25_OrderFree ==
    Inferred =>
      \A p \in PairsOf(Len(m.atom)) : \A bx \in PairBoxes :
        Accepted(Exchanged(m.atom, p[1], p[2]), p[1], p[2], bx)
          = Accepted(m.atom, p[1], p[2], bx)

\* a pair of two different types that is accepted only through the
\* periodic boundary, and a pair on the half of a box length
C25_Witness ==
    /\ Inferred
    /\ \E p \in PairsOf(Len(m.atom)) :
         /\ m.atom[p[1] + 1].type # m.atom[p[2] + 1].type
         /\ Accepted(m.atom, p[1], p[2], None) = 0
         /\ Accepted(m.atom, p[1], p[2],
                     cell(2600, 2600, 9000, {"x", "y"})) > 0
    /\ \E p \in PairsOf(Len(m.atom)) :
         2 * Abs(m.atom[p[2] + 1].x - m.atom[p[1] + 1].x) = 3600

(***************************************************************************)
(* Bond lists and dihedrals as sets of atoms.                              *)
(***************************************************************************)
Ends(b) == {b.i, b.j}

\* every bond joins two atoms and no two bonds join the same two
NoRepeatedPairs(bonds) ==
    /\ \A k \in DOMAIN bonds : bonds[k].i # bonds[k].j
    /\ \A k, l \in DOMAIN bonds : k # l => Ends(bonds[k]) # Ends(bonds[l])

Quad(d) == <<d.i, d.j, d.k, d.l>>

BackQuad(d) == <<d.l, d.k, d.j, d.i>>

\* the three bonds a dihedral runs over are three different bonds of the list
ThreeBonds(d, bonds) ==
    \E a, b, c \in DOMAIN bonds :
      /\ a # b /\ b # c /\ a # c
      /\ Ends(bonds[a]) = {d.i, d.j}
      /\ Ends(bonds[b]) = {d.j, d.k}
      /\ Ends(bonds[c]) = {d.k, d.l}

IsChain(bonds, n) ==
    /\ Len(bonds) = n - 1
    /\ \A a \in 0..(n - 2) : \E k \in DOMAIN bonds : Ends(bonds[k]) = {a, a + 1}

(***************************************************************************)
(* C23: for a bond list without repeated atom pairs, every dihedral that   *)
(* mol.anglesdiheds emits runs over three different bonds, and no two      *)
(* emitted dihedrals are the same quadruple of atoms or the reversal of    *)
(* one another, whatever the order of the list and the orientation of the  *)
(* bonds.                                                                  *)
(***************************************************************************)
C23_NoBondTwice ==
    (pc = "topology" /\ NoRepeatedPairs(m.bond)) =>
      /\ \A x \in DOMAIN m.dihed : ThreeBonds(m.dihed[x], m.bond)
      /\ \A x, y \in DOMAIN m.dihed :
           x # y => /\ Quad(m.dihed[x]) # Quad(m.dihed[y])
                    /\ Quad(m.dihed[x]) # BackQuad(m.dihed[y])

\* a ring of four atoms, bonds neither in order nor all oriented alike
C23_Witness ==
    /\ pc = "topology"
    /\ NoRepeatedPairs(m.bond)
    /\ Len(m.bond) = 4
    /\ Len(m.dihed) = 4
    /\ m.bond[1].i > m.bond[1].j
    /\ m.bond[2].i < m.bond[2].j
    /\ Ends(m.bond[1]) # {0, 1}

(***************************************************************************)
(* C24: for a chain of n atoms with its n - 1 bonds between successive     *)
(* atoms, in any order and orientation, mol.anglesdiheds emits n - 2       *)
(* angles (none for n < 3) and n - 3 dihedrals (none for n < 4).           *)
(***************************************************************************)
C24_ChainCounts ==
    (pc = "topology" /\ IsChain(m.bond, Len(m.atom))) =>
      /\ Len(m.angle) = IF Len(m.atom) < 3 THEN 0 ELSE Len(m.atom) - 2
      /\ Len(m.dihed) = IF Len(m.atom) < 4 THEN 0 ELSE Len(m.atom) - 3

\* a chain of four atoms whose middle bond comes last and reversed
C24_Witness ==
    /\ pc = "topology"
    /\ IsChain(m.bond, Len(m.atom))
    /\ Len(m.atom) = 4
    /\ m.bond[3].i = 2 /\ m.bond[3].j = 1
    /\ Len(m.angle) = 2
    /\ Len(m.dihed) = 1

(***************************************************************************)
(* C30: the force-field name of a z-matrix file is never one of the        *)
(* keywords of its last section, and a 'reconnect' line changes nothing    *)
(* but the reconnect flag, wherever it stands among the other lines.       *)
(***************************************************************************)
Keywords == {"reconnect", "connect", "improper"}

C30_ReconnectOnlyFlag ==
    [][(pc = "tail" /\ zlines # <<>>) =>
         /\ zm'.ff \notin Keywords
         /\ Head(zlines) = <<"reconnect">> =>
              zm' = [zm EXCEPT !.reconnect = TRUE]]_vars

(***************************************************************************)
(* Distances and angles recomputed from the positions.                     *)
(***************************************************************************)
ThirdPlaced == pc \in {"nth", "placed"} /\ Len(m.atom) >= 3

Between(i, j) == vector_sub(xyz(m.atom[j]), xyz(m.atom[i]))

SquaredDistance(i, j) == vector_mul(Between(i, j), Between(i, j))

\* the angle i-j-k, atom j at its vertex, is a: the cosine of the angle
\* between the two vectors from j is cos(a)
AngleIs(i, j, k, a) ==
    LET u == Reduced(Between(j, i))
        v == Reduced(Between(j, k))
        dot == vector_mul(u, v)
    IN  /\ u # Zero3 /\ v # Zero3
        /\ dot * cos5(a) >= 0
        /\ (dot = 0) <=> (cos5(a) = 0)
        /\ 25 * dot * dot
             = cos5(a) * cos5(a) * vector_mul(u, u) * vector_mul(v, v)

FlatRecord(k) ==
    /\ zm.zatom[k].a \in {0, 1800}
    /\ zm.zatom[k].ir # zm.zatom[k].ia
    /\ k >= 4 => /\ zm.zatom[k].d \in {0, 1800}
                 /\ zm.zatom[k].id \notin {zm.zatom[k].ir, zm.zatom[k].ia}

C26_FlatCompletes ==
    (\A k \in 3..Len(zm.zatom) : FlatRecord(k)) => pc # "crash"

====
